---------------------------- MODULE Spec2Model ----------------------------
(***************************************************************************)
(* A model of clogger::Logger (include/clog/log.hpp): the level gate, the  *)
(* tag filter registry, the callback / console sink and the log calls.     *)
(*                                                                         *)
(* C strings are sequences of character codes 1..255; the null pointer is  *)
(* the one-element sequence <<0>>, which no C string equals.               *)
(***************************************************************************)
EXTENDS Integers, Sequences, FiniteSets, TLC

(***************************************************************************)
(* enum class Level                                                        *)
(***************************************************************************)
OFF == 0
ERROR == 1
WARN == 2
INFO == 3
DEBUG == 4
TRACE == 5

Levels == {OFF, ERROR, WARN, INFO, DEBUG, TRACE}

\* the five levels that have a *_with_library wrapper (and a CLOG_ macro)
WrapperLevels == {ERROR, WARN, INFO, DEBUG, TRACE}

(***************************************************************************)
(* Sizes                                                                   *)
(***************************************************************************)
\* TagFilter::tag is char tag[32]
TAG_FIELD_SIZE == 32

\* char buffer[512] in log() and in every *_with_library wrapper
LOG_BUFFER_SIZE == 512

\* number of slots of tagFilters[]; the source default is 16, and any value
\* >= 1 is a legal configuration (config.hpp static_assert)
CLOG_MAX_TAG_FILTERS == 3

\* the capturing callback's vector is followed up to this many entries
MaxCapture == 2

\* number of slots of tagColors[]; the source has MAX_TAG_COLORS = 32
MAX_TAG_COLORS == 2

\* number of slots of libraryColors[] (config::MAX_LIBRARY_COLORS)
MAX_LIBRARY_COLORS == 2

\* LibraryColor::library is char library[config::MAX_LIBRARY_NAME_LENGTH + 1]
MAX_LIBRARY_NAME_LENGTH == 4

\* threads calling into the logger at the same time (num_threads = 4 in
\* test_multithreaded_logging)
NUM_THREADS == 2

\* log calls each of them makes (messages_per_thread = 10 there)
MESSAGES_PER_THREAD == 2

(***************************************************************************)
(* Inputs                                                                  *)
(***************************************************************************)
nullptr == <<0>>

Min(a, b) == IF a < b THEN a ELSE b

\* a string of n copies of character c
Repeat(c, n) == [i \in 1..n |-> c]

TagA == <<65>>
TagB == <<66>>
TagC == <<67>>
EmptyTag == <<>>
\* two tags one character longer than the field holds, equal on the first 31
LongA == Repeat(76, TAG_FIELD_SIZE - 1) \o <<97>>
LongB == Repeat(76, TAG_FIELD_SIZE - 1) \o <<98>>
\* their common 31-character prefix, a tag in its own right: it exactly
\* fills the field (31 characters + terminator)
LongPrefix == Repeat(76, TAG_FIELD_SIZE - 1)

ShortTags == {TagA, TagB}
Tags == {TagA, TagB, TagC, LongA, LongB, LongPrefix}

LibA == <<90>>
EmptyLib == <<>>
Libs == {nullptr, EmptyLib, LibA}

LibB == <<91>>
LibC == <<92>>
\* a name one character longer than LibraryColor::library holds, and its
\* prefix that exactly fills the field
LongLib == Repeat(89, MAX_LIBRARY_NAME_LENGTH + 1)
LongLibPrefix == Repeat(89, MAX_LIBRARY_NAME_LENGTH)
LibNames == {nullptr, EmptyLib, LibA, LibB, LibC, LongLib, LongLibPrefix}

\* lengths of the formatted message (what vsnprintf would produce unbounded)
MsgLens == {1, LOG_BUFFER_SIZE + 88}

\* enum class Color: the default and two of the sixteen others
Colors == {"DEFAULT", "RED", "GREEN"}

\* what the preprocessor fixes for a build: which of the three branches of
\* output() writes the console line.  ArduinoBuild is ARDUINO with one of the
\* CLOG_PLATFORM_ARDUINO/ESP32/ESP8266/AVR/RP2040_ARDUINO defines,
\* FallbackBuild is CLOG_PLATFORM_RP2040_SDK (EspIdfBuild below is the other
\* build of its branch),
\* DesktopBuild is _WIN32, __linux__ or __APPLE__ with none of those
ArduinoBuild == "ARDUINO"
DesktopBuild == "DESKTOP"
FallbackBuild == "FALLBACK"
Builds == {ArduinoBuild, DesktopBuild, FallbackBuild}

\* CLOG_PLATFORM_ESP_IDF: ESP_PLATFORM without ARDUINO.  output() takes the
\* printf branch as for FallbackBuild; platform.hpp sets both capability flags
EspIdfBuild == "ESP_IDF"
AllBuilds == Builds \cup {EspIdfBuild}

\* Logger::Callback values: no callback, the tests' capturing callback
\* (pushes every invocation on a vector) and some other function
NoCallback == "nullptr"
CaptureCallback == "captureCallback"
OtherCallback == "callbackTestFunction"

VARIABLES
    currentLevel,        \* Logger::currentLevel
    logCallback,         \* Logger::logCallback
    directOutput,        \* Logger::directOutput
    libraryTagsEnabled,  \* Logger::libraryTagsEnabled
    tagFilters,          \* Logger::tagFilters[CLOG_MAX_TAG_FILTERS]
    filterMode,          \* Logger::filterMode
    tagColors,           \* Logger::tagColors[MAX_TAG_COLORS]
    libraryColors,       \* Logger::libraryColors[MAX_LIBRARY_COLORS]
    currentPlatform,     \* Logger::currentPlatform
    build,               \* the platform the program was compiled for
    capture,             \* the vector captureCallback pushes on
    call,                \* the last public operation and its arguments
    pre,                 \* the state that operation started from
    ret,                 \* its return value, <<>> for void
    steps,               \* the statements of interest it executed, in order
    emitted,             \* what output() sent to a sink during it
    whitelistRun,        \* the tags enabled since the last disableAllTags(), while
                         \* nothing else changed the registry
    configured,          \* some configuration operation has been called
    setLevelCalled,      \* setLevel() has been called
    fault,               \* "none", or the signal that has killed the process
    threads              \* per thread: the call it is in (pc, its tag argument, its
                         \* stack buffer, its loop index) and the calls it has done

\* the members no filter, threshold or sink operation writes
presentation == <<tagColors, libraryColors, currentPlatform>>

loggerVars ==
    <<currentLevel, logCallback, directOutput, libraryTagsEnabled, tagFilters, filterMode,
      tagColors, libraryColors, currentPlatform>>

vars ==
    <<currentLevel, logCallback, directOutput, libraryTagsEnabled, tagFilters, filterMode,
      tagColors, libraryColors, currentPlatform, build,
      capture, call, pre, ret, steps, emitted, whitelistRun, configured, setLevelCalled,
      fault, threads>>

\* the logger state, and the capturing callback's vector, as one value
Snapshot ==
    [currentLevel |-> currentLevel, logCallback |-> logCallback,
     directOutput |-> directOutput, libraryTagsEnabled |-> libraryTagsEnabled,
     tagFilters |-> tagFilters, filterMode |-> filterMode,
     tagColors |-> tagColors, libraryColors |-> libraryColors,
     currentPlatform |-> currentPlatform, capture |-> capture]

Slots == 0..(CLOG_MAX_TAG_FILTERS - 1)

TagColorSlots == 0..(MAX_TAG_COLORS - 1)

LibraryColorSlots == 0..(MAX_LIBRARY_COLORS - 1)

\* clogLevel is the CLOG_LEVEL a macro call site was compiled with, bufferSize
\* the CLOG_BUFFER_SIZE the program was compiled with
NoArgs == [level |-> OFF, tag |-> EmptyTag, lib |-> nullptr, len |-> 0, flag |-> FALSE,
           cb |-> NoCallback, clogLevel |-> TRACE, color |-> "DEFAULT",
           platform |-> "DESKTOP", bufferSize |-> LOG_BUFFER_SIZE]

\* the arguments and the name of the operation
Op(name, args) == args @@ [op |-> name]


\* disableAllTags() starts a run, enableTag() extends it, any other change
\* of the registry ends it
RunAfter(c) ==
    CASE c.op = "disableAllTags" -> [ok |-> TRUE, tags |-> {}]
      [] c.op = "enableTag" -> IF whitelistRun.ok
                               THEN [ok |-> TRUE, tags |-> whitelistRun.tags \cup {c.tag}]
                               ELSE whitelistRun
      [] c.op \in {"disableTag", "enableAllTags", "clearTagFilters"} ->
             [ok |-> FALSE, tags |-> {}]
      [] OTHER -> whitelistRun

\* the operations that write logger state
ConfigOps ==
    {"setLevel", "setCallback", "enableDirectOutput", "enableLibraryTags", "enableTag",
     "disableTag", "enableAllTags", "disableAllTags", "clearTagFilters", "setTagColor",
     "setLibraryColor", "clearTagColor", "clearAllTagColors", "clearLibraryColor",
     "clearAllLibraryColors", "setPlatform", "init", "init(Platform)"}

\* what every operation records about itself; only a live process runs one
Observe(c, r, f, e) ==
    /\ fault = "none"
    /\ fault' = "none"
    /\ call' = c
    /\ whitelistRun' = RunAfter(c)
    /\ configured' = (configured \/ c.op \in ConfigOps)
    /\ setLevelCalled' = (setLevelCalled \/ c.op = "setLevel")
    /\ pre' = Snapshot
    /\ ret' = r
    /\ steps' = f
    /\ emitted' = e
    /\ UNCHANGED <<build, threads>>

(***************************************************************************)
(* Static member definitions                                               *)
(***************************************************************************)
Threads == 1..NUM_THREADS

\* no thread is inside a call or has made one
ThreadsInit ==
    [t \in Threads |-> [tag |-> EmptyTag, len |-> 0, pc |-> "idle", done |-> 0, slot |-> 0]]

StaticInit ==
    /\ currentLevel = INFO
    /\ logCallback = NoCallback
    /\ directOutput = TRUE
    /\ libraryTagsEnabled = FALSE
    /\ tagFilters = [i \in Slots |-> [tag |-> EmptyTag, active |-> FALSE]]
    /\ filterMode = "ALLOW_ALL"
    /\ tagColors = [i \in TagColorSlots |->
                       [tag |-> EmptyTag, color |-> "DEFAULT", active |-> FALSE]]
    /\ libraryColors = [i \in LibraryColorSlots |->
                           [color |-> "DEFAULT", active |-> FALSE, library |-> EmptyLib]]
    /\ currentPlatform = "DESKTOP"
    /\ capture = <<>>
    /\ call = Op("static_init", NoArgs)
    /\ pre = Snapshot
    /\ ret = <<>>
    /\ steps = <<>>
    /\ emitted = <<>>
    /\ whitelistRun = [ok |-> FALSE, tags |-> {}]
    /\ configured = FALSE
    /\ setLevelCalled = FALSE
    /\ fault = "none"
    /\ threads = ThreadsInit

\* the program as the tests build it, for a desktop
Init == StaticInit /\ build = DesktopBuild

\* the program built for platform b is started: no state outlives the
\* process, every static member is initialised again
Restart(b) ==
    /\ build' = b
    /\ currentLevel' = INFO
    /\ logCallback' = NoCallback
    /\ directOutput' = TRUE
    /\ libraryTagsEnabled' = FALSE
    /\ tagFilters' = [i \in Slots |-> [tag |-> EmptyTag, active |-> FALSE]]
    /\ filterMode' = "ALLOW_ALL"
    /\ tagColors' = [i \in TagColorSlots |->
                        [tag |-> EmptyTag, color |-> "DEFAULT", active |-> FALSE]]
    /\ libraryColors' = [i \in LibraryColorSlots |->
                            [color |-> "DEFAULT", active |-> FALSE, library |-> EmptyLib]]
    /\ currentPlatform' = "DESKTOP"
    /\ capture' = <<>>
    /\ call' = Op("static_init", NoArgs)
    /\ pre' = Snapshot'
    /\ ret' = <<>>
    /\ steps' = <<>>
    /\ emitted' = <<>>
    /\ whitelistRun' = [ok |-> FALSE, tags |-> {}]
    /\ configured' = FALSE
    /\ setLevelCalled' = FALSE
    /\ fault' = "none"
    /\ threads' = ThreadsInit

(***************************************************************************)
(* Tag filter registry                                                     *)
(***************************************************************************)
\* strncpy(dst, tag, sizeof(dst) - 1); dst[sizeof(dst) - 1] = '\0'
StoreTag(tag) == SubSeq(tag, 1, Min(Len(tag), TAG_FIELD_SIZE - 1))

\* strcmp(a, b) == 0
StrEq(a, b) == a = b

\* the search without the test of the active flag
findTagFilter_ignoresActive(tag) ==
    LET hits == {i \in Slots : StrEq(tagFilters[i].tag, tag)}
    IN  IF hits = {} THEN -1 ELSE CHOOSE i \in hits : \A j \in hits : i <= j

\* index of the first active entry whose stored string equals tag, else -1
findTagFilter(tag) ==
    LET hits == {i \in Slots : tagFilters[i].active /\ StrEq(tagFilters[i].tag, tag)}
    IN  IF hits = {} THEN -1 ELSE CHOOSE i \in hits : \A j \in hits : i <= j

\* the filter with the BLACKLIST branch lost: only a whitelist ever blocks
checkTagFilter_noBlacklist(tag) ==
    IF filterMode = "WHITELIST" THEN findTagFilter(tag) >= 0 ELSE TRUE

checkTagFilter(tag) ==
    IF filterMode = "ALLOW_ALL" THEN TRUE
    ELSE LET tagInFilter == findTagFilter(tag) >= 0
         IN  IF filterMode = "WHITELIST" THEN tagInFilter ELSE ~tagInFilter

\* the "find empty slot" loop recycling the last slot when none is inactive
AddTagFilter_overwritesLast(tag) ==
    LET free == {i \in Slots : ~tagFilters[i].active}
        i == IF free = {} THEN CLOG_MAX_TAG_FILTERS - 1
             ELSE CHOOSE k \in free : \A j \in free : k <= j
    IN  [tagFilters EXCEPT ![i] = [tag |-> StoreTag(tag), active |-> TRUE]]

\* the "find empty slot" loop: the tag goes into the first inactive slot,
\* and nowhere when every slot is active
AddTagFilter(tag) ==
    LET free == {i \in Slots : ~tagFilters[i].active}
    IN  IF free = {} THEN tagFilters
        ELSE LET i == CHOOSE k \in free : \A j \in free : k <= j
             IN  [tagFilters EXCEPT ![i] = [tag |-> StoreTag(tag), active |-> TRUE]]

\* deactivate the entry findTagFilter reports, if any
RemoveTagFilter(tag) ==
    LET index == findTagFilter(tag)
    IN  IF index >= 0 THEN [tagFilters EXCEPT ![index].active = FALSE] ELSE tagFilters

\* the clearing loop stopping one slot short
AllInactive_skipsLast ==
    [i \in Slots |-> IF i = CLOG_MAX_TAG_FILTERS - 1 THEN tagFilters[i]
                     ELSE [tagFilters[i] EXCEPT !.active = FALSE]]

\* the loop of clearTagFilters()
AllInactive == [i \in Slots |-> [tagFilters[i] EXCEPT !.active = FALSE]]

\* an emptied registry read as "no filter chosen yet": the first-call switch
\* fires again
ModeAfterEnable_emptyIsAllowAll ==
    IF filterMode = "ALLOW_ALL" \/ (\A i \in Slots : ~tagFilters[i].active)
    THEN "WHITELIST" ELSE filterMode

\* the mode and the registry enableTag(tag) leaves behind
ModeAfterEnable == IF filterMode = "ALLOW_ALL" THEN "WHITELIST" ELSE filterMode

FiltersAfterEnable(tag) ==
    IF ModeAfterEnable = "BLACKLIST" THEN RemoveTagFilter(tag)
    ELSE IF findTagFilter(tag) >= 0 THEN tagFilters
    ELSE AddTagFilter(tag)

enableTag(tag) ==
    /\ filterMode' = ModeAfterEnable
    /\ tagFilters' = FiltersAfterEnable(tag)
    /\ UNCHANGED <<currentLevel, logCallback, directOutput, libraryTagsEnabled,
                   capture, presentation>>
    /\ Observe(Op("enableTag", [NoArgs EXCEPT !.tag = tag]), <<>>, <<>>, <<>>)

\* disableTag() switching to BLACKLIST from every mode
ModeAfterDisable_fromAnyMode == "BLACKLIST"

\* the mode and the registry disableTag(tag) leaves behind
ModeAfterDisable == IF filterMode = "ALLOW_ALL" THEN "BLACKLIST" ELSE filterMode

FiltersAfterDisable(tag) ==
    IF ModeAfterDisable = "WHITELIST" THEN RemoveTagFilter(tag)
    ELSE IF findTagFilter(tag) >= 0 THEN tagFilters
    ELSE AddTagFilter(tag)

disableTag(tag) ==
    /\ filterMode' = ModeAfterDisable
    /\ tagFilters' = FiltersAfterDisable(tag)
    /\ UNCHANGED <<currentLevel, logCallback, directOutput, libraryTagsEnabled,
                   capture, presentation>>
    /\ Observe(Op("disableTag", [NoArgs EXCEPT !.tag = tag]), <<>>, <<>>, <<>>)

\* clearTagFilters() going back to ALLOW_ALL as well
clearTagFilters_resetsMode ==
    /\ tagFilters' = AllInactive
    /\ filterMode' = "ALLOW_ALL"
    /\ UNCHANGED <<currentLevel, logCallback, directOutput, libraryTagsEnabled,
                   capture, presentation>>
    /\ Observe(Op("clearTagFilters", NoArgs), <<>>, <<>>, <<>>)

clearTagFilters ==
    /\ tagFilters' = AllInactive
    /\ UNCHANGED <<currentLevel, logCallback, directOutput, libraryTagsEnabled, filterMode,
                   capture, presentation>>
    /\ Observe(Op("clearTagFilters", NoArgs), <<>>, <<>>, <<>>)

\* enableAllTags() without the call of clearTagFilters()
enableAllTags_keepsEntries ==
    /\ filterMode' = "ALLOW_ALL"
    /\ UNCHANGED <<currentLevel, logCallback, directOutput, libraryTagsEnabled, tagFilters,
                   capture, presentation>>
    /\ Observe(Op("enableAllTags", NoArgs), <<>>, <<>>, <<>>)

enableAllTags ==
    /\ filterMode' = "ALLOW_ALL"
    /\ tagFilters' = AllInactive
    /\ UNCHANGED <<currentLevel, logCallback, directOutput, libraryTagsEnabled,
                   capture, presentation>>
    /\ Observe(Op("enableAllTags", NoArgs), <<>>, <<>>, <<>>)

disableAllTags ==
    /\ filterMode' = "WHITELIST"
    /\ tagFilters' = AllInactive
    /\ UNCHANGED <<currentLevel, logCallback, directOutput, libraryTagsEnabled,
                   capture, presentation>>
    /\ Observe(Op("disableAllTags", NoArgs), <<>>, <<>>, <<>>)

\* a query answering "is the tag in the registry" whatever the mode
isTagEnabled_listedOnly(tag) ==
    /\ UNCHANGED <<loggerVars, capture>>
    /\ Observe(Op("isTagEnabled", [NoArgs EXCEPT !.tag = tag]), <<findTagFilter(tag) >= 0>>,
               <<"checkTagFilter">>, <<>>)

isTagEnabled(tag) ==
    /\ UNCHANGED <<loggerVars, capture>>
    /\ Observe(Op("isTagEnabled", [NoArgs EXCEPT !.tag = tag]), <<checkTagFilter(tag)>>,
               <<"checkTagFilter">>, <<>>)

(***************************************************************************)
(* The tag filter registry on its own: every filter operation, every tag   *)
(***************************************************************************)
NextFilter ==
    \/ \E tag \in Tags : enableTag(tag)
    \/ \E tag \in Tags : disableTag(tag)
    \/ \E tag \in Tags : isTagEnabled(tag)
    \/ clearTagFilters
    \/ enableAllTags
    \/ disableAllTags

SpecFilter == Init /\ [][NextFilter]_vars


(***************************************************************************)
(* Threshold, callback and flags                                           *)
(***************************************************************************)
setLevel(level) ==
    /\ currentLevel' = level
    /\ UNCHANGED <<logCallback, directOutput, libraryTagsEnabled, tagFilters, filterMode,
                   capture, presentation>>
    /\ Observe(Op("setLevel", [NoArgs EXCEPT !.level = level]), <<>>, <<>>, <<>>)

getLevel ==
    /\ UNCHANGED <<loggerVars, capture>>
    /\ Observe(Op("getLevel", NoArgs), <<currentLevel>>, <<>>, <<>>)

\* a setter that stores the pointer and leaves the direct-output flag alone
setCallback_keepsFlag(callback) ==
    /\ logCallback' = callback
    /\ UNCHANGED <<currentLevel, directOutput, libraryTagsEnabled, tagFilters, filterMode,
                   capture, presentation>>
    /\ Observe(Op("setCallback", [NoArgs EXCEPT !.cb = callback]), <<>>, <<>>, <<>>)

setCallback(callback) ==
    /\ logCallback' = callback
    /\ directOutput' = (callback = NoCallback)
    /\ UNCHANGED <<currentLevel, libraryTagsEnabled, tagFilters, filterMode,
                   capture, presentation>>
    /\ Observe(Op("setCallback", [NoArgs EXCEPT !.cb = callback]), <<>>, <<>>, <<>>)

enableDirectOutput(enabled) ==
    /\ directOutput' = enabled
    /\ UNCHANGED <<currentLevel, logCallback, libraryTagsEnabled, tagFilters, filterMode,
                   capture, presentation>>
    /\ Observe(Op("enableDirectOutput", [NoArgs EXCEPT !.flag = enabled]), <<>>, <<>>, <<>>)

\* a flag that, once on, stays on
enableLibraryTags_sticky(enabled) ==
    /\ libraryTagsEnabled' = (libraryTagsEnabled \/ enabled)
    /\ UNCHANGED <<currentLevel, logCallback, directOutput, tagFilters, filterMode,
                   capture, presentation>>
    /\ Observe(Op("enableLibraryTags", [NoArgs EXCEPT !.flag = enabled]), <<>>, <<>>, <<>>)

enableLibraryTags(enabled) ==
    /\ libraryTagsEnabled' = enabled
    /\ UNCHANGED <<currentLevel, logCallback, directOutput, tagFilters, filterMode,
                   capture, presentation>>
    /\ Observe(Op("enableLibraryTags", [NoArgs EXCEPT !.flag = enabled]), <<>>, <<>>, <<>>)

isLibraryTagsEnabled ==
    /\ UNCHANGED <<loggerVars, capture>>
    /\ Observe(Op("isLibraryTagsEnabled", NoArgs), <<libraryTagsEnabled>>, <<>>, <<>>)

(***************************************************************************)
(* Tag and library colors                                                  *)
(***************************************************************************)
\* strncpy(dst, library, sizeof(dst) - 1); dst[sizeof(dst) - 1] = '\0'
StoreLibrary(library) == SubSeq(library, 1, Min(Len(library), MAX_LIBRARY_NAME_LENGTH))

\* the registry setTagColor(tag, color) leaves behind: the color of the first
\* active entry holding tag is replaced, else the first inactive slot is
\* taken, else nothing happens
TagColorsAfterSet(tag, color) ==
    LET hits == {i \in TagColorSlots : tagColors[i].active /\ StrEq(tagColors[i].tag, tag)}
        free == {i \in TagColorSlots : ~tagColors[i].active}
    IN  IF hits # {}
        THEN LET i == CHOOSE k \in hits : \A j \in hits : k <= j
             IN  [tagColors EXCEPT ![i].color = color]
        ELSE IF free # {}
        THEN LET i == CHOOSE k \in free : \A j \in free : k <= j
             IN  [tagColors EXCEPT ![i] = [tag |-> StoreTag(tag), color |-> color,
                                           active |-> TRUE]]
        ELSE tagColors

setTagColor(tag, color) ==
    /\ tagColors' = TagColorsAfterSet(tag, color)
    /\ UNCHANGED <<currentLevel, logCallback, directOutput, libraryTagsEnabled, tagFilters,
                   filterMode, libraryColors, currentPlatform, capture>>
    /\ Observe(Op("setTagColor", [NoArgs EXCEPT !.tag = tag, !.color = color]),
               <<>>, <<>>, <<>>)

\* the color of the first active entry holding tag, else Color::DEFAULT
getTagColor(tag) ==
    LET hits == {i \in TagColorSlots : tagColors[i].active /\ StrEq(tagColors[i].tag, tag)}
    IN  IF hits = {} THEN "DEFAULT"
        ELSE tagColors[CHOOSE k \in hits : \A j \in hits : k <= j].color

\* the registry clearTagColor(tag) leaves behind: the first active entry
\* holding tag is deactivated
TagColorsAfterClear(tag) ==
    LET hits == {i \in TagColorSlots : tagColors[i].active /\ StrEq(tagColors[i].tag, tag)}
    IN  IF hits # {}
        THEN LET i == CHOOSE k \in hits : \A j \in hits : k <= j
             IN  [tagColors EXCEPT ![i].active = FALSE]
        ELSE tagColors

clearTagColor(tag) ==
    /\ tagColors' = TagColorsAfterClear(tag)
    /\ UNCHANGED <<currentLevel, logCallback, directOutput, libraryTagsEnabled, tagFilters,
                   filterMode, libraryColors, currentPlatform, capture>>
    /\ Observe(Op("clearTagColor", [NoArgs EXCEPT !.tag = tag]), <<>>, <<>>, <<>>)

\* the loop of clearAllTagColors() run over the filter array as well
clearAllTagColors_clearsFilters ==
    /\ tagColors' = [i \in TagColorSlots |-> [tagColors[i] EXCEPT !.active = FALSE]]
    /\ tagFilters' = [i \in Slots |-> [tagFilters[i] EXCEPT !.active = FALSE]]
    /\ UNCHANGED <<currentLevel, logCallback, directOutput, libraryTagsEnabled,
                   filterMode, libraryColors, currentPlatform, capture>>
    /\ Observe(Op("clearAllTagColors", NoArgs), <<>>, <<>>, <<>>)

clearAllTagColors ==
    /\ tagColors' = [i \in TagColorSlots |-> [tagColors[i] EXCEPT !.active = FALSE]]
    /\ UNCHANGED <<currentLevel, logCallback, directOutput, libraryTagsEnabled, tagFilters,
                   filterMode, libraryColors, currentPlatform, capture>>
    /\ Observe(Op("clearAllTagColors", NoArgs), <<>>, <<>>, <<>>)

(***************************************************************************)
(* The tag color registry on its own                                       *)
(***************************************************************************)
NextTagColors ==
    \/ \E tag \in Tags, color \in Colors : setTagColor(tag, color)
    \/ \E tag \in Tags : clearTagColor(tag)
    \/ clearAllTagColors

SpecTagColors == Init /\ [][NextTagColors]_vars

LibraryColorsAfterSet(library, color) ==
    LET hits == {i \in LibraryColorSlots :
                    libraryColors[i].active /\ StrEq(libraryColors[i].library, library)}
        free == {i \in LibraryColorSlots : ~libraryColors[i].active}
    IN  IF library = nullptr \/ Len(library) = 0 THEN libraryColors
        ELSE IF hits # {}
        THEN LET i == CHOOSE k \in hits : \A j \in hits : k <= j
             IN  [libraryColors EXCEPT ![i].color = color]
        ELSE IF free # {}
        THEN LET i == CHOOSE k \in free : \A j \in free : k <= j
             IN  [libraryColors EXCEPT ![i] = [color |-> color, active |-> TRUE,
                                               library |-> StoreLibrary(library)]]
        ELSE libraryColors

setLibraryColor(library, color) ==
    /\ libraryColors' = LibraryColorsAfterSet(library, color)
    /\ UNCHANGED <<currentLevel, logCallback, directOutput, libraryTagsEnabled, tagFilters,
                   filterMode, tagColors, currentPlatform, capture>>
    /\ Observe(Op("setLibraryColor", [NoArgs EXCEPT !.lib = library, !.color = color]),
               <<>>, <<>>, <<>>)

\* the color of the first active entry holding library, else Color::DEFAULT
getLibraryColor(library) ==
    LET hits == {i \in LibraryColorSlots :
                    libraryColors[i].active /\ StrEq(libraryColors[i].library, library)}
    IN  IF hits = {} THEN "DEFAULT"
        ELSE libraryColors[CHOOSE k \in hits : \A j \in hits : k <= j].color

\* the registry clearLibraryColor(library) leaves behind: the first active
\* entry holding library is deactivated
LibraryColorsAfterClear(library) ==
    LET hits == {i \in LibraryColorSlots :
                    libraryColors[i].active /\ StrEq(libraryColors[i].library, library)}
    IN  IF library = nullptr \/ Len(library) = 0 THEN libraryColors
        ELSE IF hits # {}
        THEN LET i == CHOOSE k \in hits : \A j \in hits : k <= j
             IN  [libraryColors EXCEPT ![i].active = FALSE]
        ELSE libraryColors

clearLibraryColor(library) ==
    /\ libraryColors' = LibraryColorsAfterClear(library)
    /\ UNCHANGED <<currentLevel, logCallback, directOutput, libraryTagsEnabled, tagFilters,
                   filterMode, tagColors, currentPlatform, capture>>
    /\ Observe(Op("clearLibraryColor", [NoArgs EXCEPT !.lib = library]), <<>>, <<>>, <<>>)

clearAllLibraryColors ==
    /\ libraryColors' = [i \in LibraryColorSlots |->
                            [libraryColors[i] EXCEPT !.active = FALSE]]
    /\ UNCHANGED <<currentLevel, logCallback, directOutput, libraryTagsEnabled, tagFilters,
                   filterMode, tagColors, currentPlatform, capture>>
    /\ Observe(Op("clearAllLibraryColors", NoArgs), <<>>, <<>>, <<>>)

(***************************************************************************)
(* The library color registry on its own                                   *)
(***************************************************************************)
NextLibraryColors ==
    \/ \E library \in LibNames, color \in Colors : setLibraryColor(library, color)
    \/ \E library \in LibNames : clearLibraryColor(library)
    \/ clearAllLibraryColors

SpecLibraryColors == Init /\ [][NextLibraryColors]_vars

(***************************************************************************)
(* Colors and tag filters side by side                                     *)
(***************************************************************************)
NextPresentation ==
    \/ setTagColor(TagA, "RED")
    \/ clearTagColor(TagA)
    \/ clearAllTagColors
    \/ setLibraryColor(LibA, "GREEN")
    \/ clearLibraryColor(LibA)
    \/ clearAllLibraryColors
    \/ \E tag \in {TagA, LongA} : enableTag(tag)
    \/ disableTag(TagA)
    \/ isTagEnabled(TagA)
    \/ enableAllTags
    \/ disableAllTags
    \/ clearTagFilters

SpecPresentation == Init /\ [][NextPresentation]_vars

(***************************************************************************)
(* Formatter / sink                                                        *)
(***************************************************************************)
\* vsnprintf(buffer, sizeof(buffer), format, args): the length of the
\* string left in the buffer
vsnprintf(len) == Min(len, LOG_BUFFER_SIZE - 1)

\* the segment printed whenever the call carries a non-empty name,
\* whatever libraryTagsEnabled says
LibrarySegment_ignoresFlag(libraryName) ==
    IF libraryName # nullptr /\ libraryName # <<>> THEN libraryName ELSE nullptr

\* the library segment of a console line: the name, or nullptr for no segment
\* if (libraryTagsEnabled && libraryName && libraryName[0] != '\0')
LibrarySegment(libraryName) ==
    IF libraryTagsEnabled /\ libraryName # nullptr /\ libraryName # <<>>
    THEN libraryName ELSE nullptr

\* no escape sequence: colorToAnsi(Color::DEFAULT) is ""
NoEscape == ""

isArduinoPlatform == build = ArduinoBuild

isDesktopPlatform == build = DesktopBuild

\* true with one of the seven embedded CLOG_PLATFORM_ defines
isEmbeddedPlatform == build \in {ArduinoBuild, FallbackBuild, EspIdfBuild}

\* CLOG_HAS_COLOR_SUPPORT: CLOG_PLATFORM_DESKTOP or CLOG_PLATFORM_ESP_IDF
hasColorSupport == build \in {DesktopBuild, EspIdfBuild}

\* CLOG_HAS_PRINTF_SUPPORT: CLOG_PLATFORM_ARDUINO or CLOG_PLATFORM_ESP_IDF
hasPrintfSupport == build \in {ArduinoBuild, EspIdfBuild}

\* a keyword for OFF as well
levelToString_namesOff(level) ==
    CASE level = OFF -> "OFF  "
      [] level = ERROR -> "ERROR"
      [] level = WARN -> "WARN "
      [] level = INFO -> "INFO "
      [] level = DEBUG -> "DEBUG"
      [] level = TRACE -> "TRACE"
      [] OTHER -> "?????"

\* the five-character keyword of a level; OFF has no case of its own
levelToString(level) ==
    CASE level = ERROR -> "ERROR"
      [] level = WARN -> "WARN "
      [] level = INFO -> "INFO "
      [] level = DEBUG -> "DEBUG"
      [] level = TRACE -> "TRACE"
      [] OTHER -> "?????"

\* the line "[LEVEL] [LIBRARY][TAG]: message" written through one of the
\* three console interfaces; lib = nullptr is the line without "[LIBRARY]"
\* levelColor, tagColor and libraryColor are the escape sequences written
\* before the level keyword, the tag and the library name; the Serial.printf
\* and printf branches write none.  levelStr is the keyword between the
\* first pair of brackets
ConsoleLine(via, level, tag, message, libraryName) ==
    [level |-> level, tag |-> tag, lib |-> LibrarySegment(libraryName), len |-> message,
     via |-> via, sink |-> "console", levelColor |-> NoEscape, tagColor |-> NoEscape,
     libraryColor |-> NoEscape, levelStr |-> levelToString(level)]

\* the escape sequence of a color, named by the color; levelToColor's
\* "\033[90m" is BRIGHT_BLACK's
levelToColor(level) ==
    CASE level = ERROR -> "BRIGHT_RED"
      [] level = WARN -> "BRIGHT_YELLOW"
      [] level = INFO -> "BRIGHT_GREEN"
      [] level = DEBUG -> "BRIGHT_BLUE"
      [] level = TRACE -> "BRIGHT_BLACK"
      [] OTHER -> "RESET"

colorToAnsi(color) == IF color = "DEFAULT" THEN NoEscape ELSE color

\* the std::cout branch: the level keyword always colored, the tag and the
\* library name when their registry gives a color other than DEFAULT
ColoredLine(level, tag, message, libraryName) ==
    [ConsoleLine("std::cout", level, tag, message, libraryName) EXCEPT
        !.levelColor = levelToColor(level),
        !.tagColor = colorToAnsi(getTagColor(tag)),
        !.libraryColor = IF LibrarySegment(libraryName) # nullptr
                         THEN colorToAnsi(getLibraryColor(libraryName))
                         ELSE NoEscape]


\* output() falling back to the console whenever no callback is registered
output_consoleFallback(level, tag, message, libraryName) ==
    IF logCallback # NoCallback
    THEN <<[level |-> level, tag |-> tag, lib |-> libraryName, len |-> message,
            via |-> "logCallback", sink |-> "callback"]>>
    ELSE <<ConsoleLine("printf", level, tag, message, libraryName)>>

\* output() writing to the console although a callback is registered
output_bothSinks(level, tag, message, libraryName) ==
    (IF logCallback # NoCallback
     THEN <<[level |-> level, tag |-> tag, lib |-> libraryName, len |-> message,
             via |-> "logCallback", sink |-> "callback"]>>
     ELSE <<>>)
    \o (IF directOutput \/ logCallback # NoCallback
        THEN <<ConsoleLine("printf", level, tag, message, libraryName)>>
        ELSE <<>>)

\* Logger::output: what reaches which sink
output(level, tag, message, libraryName) ==
    IF logCallback # NoCallback
    THEN <<[level |-> level, tag |-> tag, lib |-> libraryName, len |-> message,
            via |-> "logCallback", sink |-> "callback"]>>
    ELSE IF directOutput
    THEN IF isArduinoPlatform
         THEN <<ConsoleLine("Serial.printf", level, tag, message, libraryName)>>
         ELSE IF isDesktopPlatform
         THEN <<ColoredLine(level, tag, message, libraryName)>>
         ELSE <<ConsoleLine("printf", level, tag, message, libraryName)>>
    ELSE <<>>

\* captureCallback: push {level, tag, message} of each invocation on the vector
captureCallback(events) ==
    LET invocations == SelectSeq(events, LAMBDA e : e.sink = "callback")
    IN  [i \in 1..Len(invocations) |->
            [level |-> invocations[i].level, tag |-> invocations[i].tag,
             len |-> invocations[i].len]]

\* the gate with the comparison off by one: the threshold's own level is cut
LevelGate_strict(level) == level < currentLevel

\* if (level > currentLevel) return;
LevelGate(level) == ~(level > currentLevel)

\* the body as built with CLOG_ENABLE_TAG_FILTERING = 0: no tag check
LogCall_noTagFilter(name, level, tag, libraryName, len) ==
    LET c == Op(name, [NoArgs EXCEPT !.level = level, !.tag = tag, !.lib = libraryName,
                                     !.len = len])
    IN  /\ UNCHANGED loggerVars
        /\ IF ~LevelGate(level)
           THEN /\ Observe(c, <<>>, <<"level">>, <<>>)
                /\ UNCHANGED capture
           ELSE LET out == output(level, tag, vsnprintf(len), libraryName)
                IN  /\ Observe(c, <<>>, <<"level", "vsnprintf", "output">>, out)
                    /\ capture' = IF logCallback = CaptureCallback
                                  THEN capture \o captureCallback(out) ELSE capture

\* a body that runs init(Platform::AUTO_DETECT) before anything else
LogBody_lazyInit(c, level, tag, libraryName, len) ==
    /\ currentPlatform' = "AUTO_DETECT"
    /\ UNCHANGED <<currentLevel, logCallback, directOutput, libraryTagsEnabled, tagFilters,
                   filterMode, tagColors, libraryColors>>
    /\ IF ~LevelGate(level)
       THEN /\ Observe(c, <<>>, <<"level">>, <<>>)
            /\ UNCHANGED capture
       ELSE IF ~checkTagFilter(tag)
       THEN /\ Observe(c, <<>>, <<"level", "checkTagFilter">>, <<>>)
            /\ UNCHANGED capture
       ELSE LET out == output(level, tag, vsnprintf(len), libraryName)
            IN  /\ Observe(c, <<>>, <<"level", "checkTagFilter", "vsnprintf", "output">>,
                           out)
                /\ capture' = IF logCallback = CaptureCallback
                              THEN capture \o captureCallback(out) ELSE capture

\* the body shared by log() and the five *_with_library wrappers, run for
\* the call c
LogBody(c, level, tag, libraryName, len) ==
    /\ UNCHANGED loggerVars
    /\ IF ~LevelGate(level)
       THEN /\ Observe(c, <<>>, <<"level">>, <<>>)
            /\ UNCHANGED capture
       ELSE IF ~checkTagFilter(tag)
       THEN /\ Observe(c, <<>>, <<"level", "checkTagFilter">>, <<>>)
            /\ UNCHANGED capture
       ELSE LET out == output(level, tag, vsnprintf(len), libraryName)
            IN  /\ Observe(c, <<>>, <<"level", "checkTagFilter", "vsnprintf", "output">>,
                           out)
                /\ capture' = IF logCallback = CaptureCallback
                              THEN capture \o captureCallback(out) ELSE capture

LogCall(name, level, tag, libraryName, len) ==
    LogBody(Op(name, [NoArgs EXCEPT !.level = level, !.tag = tag, !.lib = libraryName,
                                    !.len = len]),
            level, tag, libraryName, len)

log(level, tag, len) == LogCall("log", level, tag, nullptr, len)

\* Logger::log in a program compiled with -DCLOG_BUFFER_SIZE=bufferSize: log()
\* declares char buffer[512] and never reads the macro
log_sized(bufferSize, level, tag, len) ==
    LogBody(Op("log", [NoArgs EXCEPT !.level = level, !.tag = tag, !.len = len,
                                     !.bufferSize = bufferSize]),
            level, tag, nullptr, len)

error_with_library(tag, libraryName, len) ==
    LogCall("error_with_library", ERROR, tag, libraryName, len)

warn_with_library(tag, libraryName, len) ==
    LogCall("warn_with_library", WARN, tag, libraryName, len)

info_with_library(tag, libraryName, len) ==
    LogCall("info_with_library", INFO, tag, libraryName, len)

debug_with_library(tag, libraryName, len) ==
    LogCall("debug_with_library", DEBUG, tag, libraryName, len)

trace_with_library(tag, libraryName, len) ==
    LogCall("trace_with_library", TRACE, tag, libraryName, len)

LogOps == {"log", "error_with_library", "warn_with_library", "info_with_library",
           "debug_with_library", "trace_with_library"}

(***************************************************************************)
(* The CLOG_ macros.  CLOG_LEVEL and CLOG_LIBRARY_NAME are preprocessor    *)
(* symbols of the translation unit of the call site: clogLevel and         *)
(* libraryName stand for them.                                             *)
(***************************************************************************)
\* the values of CLOG_LEVEL config.hpp's static_assert accepts
ClogLevels == Levels

MacroOps == {"CLOG_ERROR", "CLOG_WARN", "CLOG_INFO", "CLOG_DEBUG", "CLOG_TRACE"}

\* a call site the preprocessor left as ((void)0)
VoidExpression(c) ==
    /\ UNCHANGED <<loggerVars, capture>>
    /\ Observe(c, <<>>, <<>>, <<>>)

\* #if CLOG_LEVEL < level: ((void)0), else the *_with_library wrapper
MacroCall(name, clogLevel, level, tag, libraryName, len) ==
    LET c == Op(name, [NoArgs EXCEPT !.level = level, !.tag = tag, !.lib = libraryName,
                                     !.len = len, !.clogLevel = clogLevel])
    IN  IF clogLevel < level THEN VoidExpression(c)
        ELSE LogBody(c, level, tag, libraryName, len)

CLOG_ERROR(clogLevel, tag, libraryName, len) ==
    MacroCall("CLOG_ERROR", clogLevel, ERROR, tag, libraryName, len)

CLOG_WARN(clogLevel, tag, libraryName, len) ==
    MacroCall("CLOG_WARN", clogLevel, WARN, tag, libraryName, len)

CLOG_INFO(clogLevel, tag, libraryName, len) ==
    MacroCall("CLOG_INFO", clogLevel, INFO, tag, libraryName, len)

\* CLOG_DEBUG left as the wrapper call whatever CLOG_LEVEL is
CLOG_DEBUG_noFloor(clogLevel, tag, libraryName, len) ==
    LogBody(Op("CLOG_DEBUG", [NoArgs EXCEPT !.level = DEBUG, !.tag = tag, !.lib = libraryName,
                                            !.len = len, !.clogLevel = clogLevel]),
            DEBUG, tag, libraryName, len)

CLOG_DEBUG(clogLevel, tag, libraryName, len) ==
    MacroCall("CLOG_DEBUG", clogLevel, DEBUG, tag, libraryName, len)

CLOG_TRACE(clogLevel, tag, libraryName, len) ==
    MacroCall("CLOG_TRACE", clogLevel, TRACE, tag, libraryName, len)

(***************************************************************************)
(* A null tag.  No operation tests its tag argument, and strcmp(s, NULL),  *)
(* strncpy(dst, NULL, n) and a "%s" or operator<< given NULL read through  *)
(* the null pointer: undefined behaviour.  The read faults and the process *)
(* is killed, or, where address 0 is readable memory (a microcontroller    *)
(* without memory protection), it yields the bytes found there.            *)
(***************************************************************************)
\* the C string found at address 0 where the read does not fault: any bytes,
\* of which one non-empty string stands for all
BytesAtNull == {TagA}

\* the operation c is killed by the fault: it never returns
Fault(c) ==
    /\ fault = "none"
    /\ fault' = "SIGSEGV"
    /\ call' = c
    /\ pre' = Snapshot
    /\ ret' = <<>>
    /\ steps' = <<"*NULL">>
    /\ emitted' = <<>>
    /\ UNCHANGED <<loggerVars, capture, build, whitelistRun, configured, setLevelCalled,
                   threads>>

\* findTagFilter(NULL) calls strcmp on the first active entry
FindReadsTag == \E i \in Slots : tagFilters[i].active

\* enableTag(NULL): in WHITELIST mode findTagFilter or the strncpy of the
\* free slot reads the tag (with every slot active findTagFilter does); in
\* BLACKLIST mode findTagFilter does unless no entry is active
enableTag_null ==
    LET c == Op("enableTag", [NoArgs EXCEPT !.tag = nullptr])
    IN  IF ModeAfterEnable = "WHITELIST" \/ FindReadsTag
        THEN \/ Fault(c)
             \/ \E g \in BytesAtNull :
                    /\ filterMode' = ModeAfterEnable
                    /\ tagFilters' = FiltersAfterEnable(g)
                    /\ UNCHANGED <<currentLevel, logCallback, directOutput,
                                   libraryTagsEnabled, capture, presentation>>
                    /\ Observe(c, <<>>, <<"*NULL">>, <<>>)
        ELSE /\ filterMode' = ModeAfterEnable
             /\ UNCHANGED <<currentLevel, logCallback, directOutput, libraryTagsEnabled,
                            tagFilters, capture, presentation>>
             /\ Observe(c, <<>>, <<>>, <<>>)

disableTag_null ==
    LET c == Op("disableTag", [NoArgs EXCEPT !.tag = nullptr])
    IN  IF ModeAfterDisable = "BLACKLIST" \/ FindReadsTag
        THEN \/ Fault(c)
             \/ \E g \in BytesAtNull :
                    /\ filterMode' = ModeAfterDisable
                    /\ tagFilters' = FiltersAfterDisable(g)
                    /\ UNCHANGED <<currentLevel, logCallback, directOutput,
                                   libraryTagsEnabled, capture, presentation>>
                    /\ Observe(c, <<>>, <<"*NULL">>, <<>>)
        ELSE /\ filterMode' = ModeAfterDisable
             /\ UNCHANGED <<currentLevel, logCallback, directOutput, libraryTagsEnabled,
                            tagFilters, capture, presentation>>
             /\ Observe(c, <<>>, <<>>, <<>>)

\* checkTagFilter(NULL) reads the tag unless the mode is ALLOW_ALL or no
\* entry is active
FilterReadsTag == filterMode # "ALLOW_ALL" /\ FindReadsTag

isTagEnabled_null ==
    LET c == Op("isTagEnabled", [NoArgs EXCEPT !.tag = nullptr])
    IN  /\ UNCHANGED <<loggerVars, capture>>
        /\ IF FilterReadsTag
           THEN \/ Fault(c)
                \/ \E g \in BytesAtNull :
                       Observe(c, <<checkTagFilter(g)>>, <<"checkTagFilter", "*NULL">>, <<>>)
           ELSE Observe(c, <<filterMode # "WHITELIST">>, <<"checkTagFilter">>, <<>>)

\* setTagColor(NULL, color): the strcmp of the first loop reads the tag, or
\* with no active entry the strncpy of the second
setTagColor_null(color) ==
    LET c == Op("setTagColor", [NoArgs EXCEPT !.tag = nullptr, !.color = color])
    IN  \/ Fault(c)
        \/ \E g \in BytesAtNull :
               /\ tagColors' = TagColorsAfterSet(g, color)
               /\ UNCHANGED <<currentLevel, logCallback, directOutput, libraryTagsEnabled,
                              tagFilters, filterMode, libraryColors, currentPlatform,
                              capture>>
               /\ Observe(c, <<>>, <<"*NULL">>, <<>>)

\* clearTagColor(NULL) reads the tag unless no color entry is active
clearTagColor_null ==
    LET c == Op("clearTagColor", [NoArgs EXCEPT !.tag = nullptr])
    IN  IF \E i \in TagColorSlots : tagColors[i].active
        THEN \/ Fault(c)
             \/ \E g \in BytesAtNull :
                    /\ tagColors' = TagColorsAfterClear(g)
                    /\ UNCHANGED <<currentLevel, logCallback, directOutput,
                                   libraryTagsEnabled, tagFilters, filterMode,
                                   libraryColors, currentPlatform, capture>>
                    /\ Observe(c, <<>>, <<"*NULL">>, <<>>)
        ELSE /\ UNCHANGED <<loggerVars, capture>>
             /\ Observe(c, <<>>, <<>>, <<>>)

\* log(level, NULL, ...): past the level gate checkTagFilter may read the
\* tag, and every console branch does (getTagColor's strcmp, "%s",
\* operator<<); the callback is handed the null pointer as it is
log_null(level, len) ==
    LET c == Op("log", [NoArgs EXCEPT !.level = level, !.tag = nullptr, !.len = len])
        passes == filterMode # "WHITELIST"
        console == logCallback = NoCallback /\ directOutput
        delivered(g) ==
            LET out == output(level, IF console THEN g ELSE nullptr, vsnprintf(len), nullptr)
            IN  /\ Observe(c, <<>>, <<"level", "checkTagFilter", "vsnprintf", "output">>, out)
                /\ capture' = IF logCallback = CaptureCallback
                              THEN capture \o captureCallback(out) ELSE capture
    IN  /\ UNCHANGED loggerVars
        /\ IF ~LevelGate(level)
           THEN /\ Observe(c, <<>>, <<"level">>, <<>>)
                /\ UNCHANGED capture
           ELSE IF FilterReadsTag
           THEN \/ Fault(c) /\ UNCHANGED capture
                \/ \E g \in BytesAtNull :
                       IF checkTagFilter(g) THEN delivered(g)
                       ELSE /\ Observe(c, <<>>, <<"level", "checkTagFilter">>, <<>>)
                            /\ UNCHANGED capture
           ELSE IF ~passes
           THEN /\ Observe(c, <<>>, <<"level", "checkTagFilter">>, <<>>)
                /\ UNCHANGED capture
           ELSE IF console
           THEN \/ Fault(c) /\ UNCHANGED capture
                \/ \E g \in BytesAtNull : delivered(g)
           ELSE delivered(nullptr)

(***************************************************************************)
(* Every argument an operation can be given, null tags included            *)
(***************************************************************************)
NextAnyArgument ==
    \/ setCallback(OtherCallback)
    \/ enableTag(LongA)
    \/ enableTag_null
    \/ disableTag_null
    \/ enableAllTags
    \/ isTagEnabled(EmptyTag)
    \/ isTagEnabled_null
    \/ setTagColor(LongA, "RED")
    \/ setTagColor_null("RED")
    \/ clearTagColor_null
    \/ \E library \in {nullptr, EmptyLib, LongLib} : setLibraryColor(library, "GREEN")
    \/ \E library \in {nullptr, LongLib} : clearLibraryColor(library)
    \/ \E tag \in {EmptyTag, LongA} : log(ERROR, tag, 1)
    \/ log_null(ERROR, 1)
    \/ \E library \in {nullptr, LongLib} : info_with_library(EmptyTag, library, 1)

SpecAnyArgument == Init /\ [][NextAnyArgument]_vars

(***************************************************************************)
(* Threads.  The logger takes no lock (CLOG_THREAD_SAFE is 0 and nothing   *)
(* reads it): calls made by several threads interleave statement by        *)
(* statement.  The observer variables of whole calls are left alone.       *)
(***************************************************************************)
observer == <<call, pre, ret, steps, emitted, whitelistRun, configured, setLevelCalled,
              fault, build>>

\* no thread has started: configuration happens here
Quiescent == threads = ThreadsInit

\* what thread t logs: its own level (ERROR, WARN, INFO, ...), its own tag,
\* and messages whose formatted length tells them all apart
ThreadLevel(t) == t
ThreadTag(t) == <<64 + t>>
MessageLen(t, k) == 10 * t + k

\* the call returns; its tag argument and loop index stay as it left them
Return(t) == [threads[t] EXCEPT !.pc = "idle", !.done = @ + 1, !.len = 0]

\* if (level > currentLevel) return;
ThreadLogLevel(t) ==
    /\ threads[t].pc = "idle"
    /\ threads[t].done < MESSAGES_PER_THREAD
    /\ threads' = [threads EXCEPT ![t] = IF LevelGate(ThreadLevel(t))
                                         THEN [@ EXCEPT !.pc = "checkTagFilter"]
                                         ELSE Return(t)]
    /\ UNCHANGED <<loggerVars, capture, observer>>

\* if (!checkTagFilter(tag)) return;
ThreadLogFilter(t) ==
    /\ threads[t].pc = "checkTagFilter"
    /\ threads' = [threads EXCEPT ![t] = IF checkTagFilter(ThreadTag(t))
                                         THEN [@ EXCEPT !.pc = "vsnprintf"]
                                         ELSE Return(t)]
    /\ UNCHANGED <<loggerVars, capture, observer>>

\* vsnprintf into one buffer shared by all threads: a thread about to call
\* output() finds the other's message in it
ThreadLogFormat_sharedBuffer(t) ==
    LET message == vsnprintf(MessageLen(t, threads[t].done + 1))
    IN  /\ threads[t].pc = "vsnprintf"
        /\ threads' = [u \in Threads |->
                           IF u = t THEN [threads[u] EXCEPT !.pc = "output", !.len = message]
                           ELSE IF threads[u].pc = "output"
                           THEN [threads[u] EXCEPT !.len = message]
                           ELSE threads[u]]
        /\ UNCHANGED <<loggerVars, capture, observer>>

\* char buffer[512]; vsnprintf(buffer, sizeof(buffer), format, args): the
\* buffer is on the calling thread's stack
ThreadLogFormat(t) ==
    /\ threads[t].pc = "vsnprintf"
    /\ threads' = [threads EXCEPT ![t] =
                       [@ EXCEPT !.pc = "output",
                                 !.len = vsnprintf(MessageLen(t, threads[t].done + 1))]]
    /\ UNCHANGED <<loggerVars, capture, observer>>

\* output(level, tag, buffer, nullptr): the callback is called on the calling
\* thread; the tests' callback takes a mutex around its push_back
ThreadLogOutput(t) ==
    LET out == output(ThreadLevel(t), ThreadTag(t), threads[t].len, nullptr)
    IN  /\ threads[t].pc = "output"
        /\ capture' = IF logCallback = CaptureCallback
                      THEN capture \o captureCallback(out) ELSE capture
        /\ threads' = [threads EXCEPT ![t] = Return(t)]
        /\ UNCHANGED <<loggerVars, observer>>

NextThreads ==
    \/ Quiescent /\ setCallback(CaptureCallback)
    \/ Quiescent /\ setLevel(ERROR)
    \/ Quiescent /\ disableTag(ThreadTag(1))
    \/ \E t \in Threads : ThreadLogLevel(t)
    \/ \E t \in Threads : ThreadLogFilter(t)
    \/ \E t \in Threads : ThreadLogFormat(t)
    \/ \E t \in Threads : ThreadLogOutput(t)

SpecThreads == Init /\ [][NextThreads]_vars

\* enableTag(tag), first statement:
\* if (filterMode == ALLOW_ALL) filterMode = WHITELIST;
ThreadEnableMode(t, tag) ==
    /\ threads[t].pc = "idle"
    /\ threads[t].done = 0
    /\ filterMode' = ModeAfterEnable
    /\ threads' = [threads EXCEPT ![t] = [@ EXCEPT !.tag = tag, !.pc = "findTagFilter"]]
    /\ UNCHANGED <<currentLevel, logCallback, directOutput, libraryTagsEnabled, tagFilters,
                   presentation, capture, observer>>

\* if (filterMode == BLACKLIST) { index = findTagFilter(tag); ... return; }
\* if (findTagFilter(tag) >= 0) return;
ThreadEnableFind(t) ==
    /\ threads[t].pc = "findTagFilter"
    /\ threads' = [threads EXCEPT ![t] =
                       IF filterMode = "BLACKLIST"
                       THEN IF findTagFilter(threads[t].tag) >= 0
                            THEN [@ EXCEPT !.pc = "deactivate",
                                           !.slot = findTagFilter(threads[t].tag)]
                            ELSE Return(t)
                       ELSE IF findTagFilter(threads[t].tag) >= 0 THEN Return(t)
                       ELSE [@ EXCEPT !.pc = "scan", !.slot = 0]]
    /\ UNCHANGED <<loggerVars, capture, observer>>

\* tagFilters[index].active = false; return;
ThreadEnableDeactivate(t) ==
    /\ threads[t].pc = "deactivate"
    /\ tagFilters' = [tagFilters EXCEPT ![threads[t].slot].active = FALSE]
    /\ threads' = [threads EXCEPT ![t] = Return(t)]
    /\ UNCHANGED <<currentLevel, logCallback, directOutput, libraryTagsEnabled, filterMode,
                   presentation, capture, observer>>

\* the loop taking slot 0 without looking at its active flag
ThreadEnableScan_takesFirst(t) ==
    /\ threads[t].pc = "scan"
    /\ threads' = [threads EXCEPT ![t] = [@ EXCEPT !.pc = "strncpy", !.slot = 0]]
    /\ UNCHANGED <<loggerVars, capture, observer>>

\* one iteration of the "find empty slot" loop:
\* if (!tagFilters[i].active) { ... }, else i++, and off the end the call
\* returns with nothing stored
ThreadEnableScan(t) ==
    /\ threads[t].pc = "scan"
    /\ threads' = [threads EXCEPT ![t] =
                       IF ~tagFilters[threads[t].slot].active THEN [@ EXCEPT !.pc = "strncpy"]
                       ELSE IF threads[t].slot + 1 < CLOG_MAX_TAG_FILTERS
                       THEN [@ EXCEPT !.slot = @ + 1]
                       ELSE Return(t)]
    /\ UNCHANGED <<loggerVars, capture, observer>>

\* strncpy(tagFilters[i].tag, tag, sizeof(tagFilters[i].tag) - 1) and the
\* terminator
ThreadEnableCopy(t) ==
    /\ threads[t].pc = "strncpy"
    /\ tagFilters' = [tagFilters EXCEPT ![threads[t].slot].tag = StoreTag(threads[t].tag)]
    /\ threads' = [threads EXCEPT ![t] = [@ EXCEPT !.pc = "activate"]]
    /\ UNCHANGED <<currentLevel, logCallback, directOutput, libraryTagsEnabled, filterMode,
                   presentation, capture, observer>>

\* tagFilters[i].active = true; return;
ThreadEnableActivate(t) ==
    /\ threads[t].pc = "activate"
    /\ tagFilters' = [tagFilters EXCEPT ![threads[t].slot].active = TRUE]
    /\ threads' = [threads EXCEPT ![t] = Return(t)]
    /\ UNCHANGED <<currentLevel, logCallback, directOutput, libraryTagsEnabled, filterMode,
                   presentation, capture, observer>>

\* each thread makes one enableTag call; before they start TagC may be
\* enabled or disabled by the main thread
NextEnableRace ==
    \/ Quiescent /\ ~configured /\ enableTag(TagC)
    \/ Quiescent /\ ~configured /\ disableTag(TagC)
    \/ \E t \in Threads, tag \in ShortTags \cup {TagC} : ThreadEnableMode(t, tag)
    \/ \E t \in Threads : ThreadEnableFind(t)
    \/ \E t \in Threads : ThreadEnableDeactivate(t)
    \/ \E t \in Threads : ThreadEnableScan(t)
    \/ \E t \in Threads : ThreadEnableCopy(t)
    \/ \E t \in Threads : ThreadEnableActivate(t)

SpecEnableRace == Init /\ [][NextEnableRace]_vars

(***************************************************************************)
(* Long messages                                                           *)
(***************************************************************************)
\* the values config.hpp gives CLOG_BUFFER_SIZE: 256 with
\* CLOG_PLATFORM_EMBEDDED defined, 512 without
BufferSizes == {256, LOG_BUFFER_SIZE}

\* formatted lengths around the two limits
TruncationLens == {1, 256, LOG_BUFFER_SIZE - 1, LOG_BUFFER_SIZE, LOG_BUFFER_SIZE + 88}

NextTruncation ==
    \/ \E b \in Builds : Restart(b)
    \/ \E level \in {ERROR, INFO} : setLevel(level)
    \/ \E callback \in {NoCallback, CaptureCallback} : setCallback(callback)
    \/ \E enabled \in BOOLEAN : enableDirectOutput(enabled)
    \/ disableTag(TagA)
    \/ enableAllTags
    \/ \E bufferSize \in BufferSizes, level \in {ERROR, DEBUG}, len \in TruncationLens :
          log_sized(bufferSize, level, TagA, len) /\ Len(capture') <= 1

SpecTruncation == Init /\ [][NextTruncation]_vars

(***************************************************************************)
(* Platform                                                                *)
(***************************************************************************)
\* enum class Platform: four of the eleven
Platforms == {"DESKTOP", "ESP32", "RP2040_SDK", "AUTO_DETECT"}

setPlatform(platform) ==
    /\ currentPlatform' = platform
    /\ UNCHANGED <<currentLevel, logCallback, directOutput, libraryTagsEnabled, tagFilters,
                   filterMode, tagColors, libraryColors, capture>>
    /\ Observe(Op("setPlatform", [NoArgs EXCEPT !.platform = platform]), <<>>, <<>>, <<>>)

getPlatform ==
    /\ UNCHANGED <<loggerVars, capture>>
    /\ Observe(Op("getPlatform", NoArgs), <<currentPlatform>>, <<>>, <<>>)

\* init(): stdio_init_all() on the RP2040 SDK, nothing of the logger's
init ==
    /\ UNCHANGED <<loggerVars, capture>>
    /\ Observe(Op("init", NoArgs), <<>>, <<>>, <<>>)

\* init(Platform): setPlatform(platform); init();
initWith(platform) ==
    /\ currentPlatform' = platform
    /\ UNCHANGED <<currentLevel, logCallback, directOutput, libraryTagsEnabled, tagFilters,
                   filterMode, tagColors, libraryColors, capture>>
    /\ Observe(Op("init(Platform)", [NoArgs EXCEPT !.platform = platform]),
               <<>>, <<"setPlatform", "init">>, <<>>)

QueryOps == {"isDesktopPlatform", "isEmbeddedPlatform", "isArduinoPlatform",
             "hasColorSupport", "hasPrintfSupport"}

\* the five queries answering from currentPlatform instead of the
\* preprocessor's defines
platformQuery_runtime(query) ==
    /\ UNCHANGED <<loggerVars, capture>>
    /\ Observe(Op(query, NoArgs),
               <<CASE query = "isDesktopPlatform" -> currentPlatform = "DESKTOP"
                   [] query = "isEmbeddedPlatform" -> currentPlatform # "DESKTOP"
                   [] query = "isArduinoPlatform" -> currentPlatform = "ESP32"
                   [] query = "hasColorSupport" -> currentPlatform = "DESKTOP"
                   [] query = "hasPrintfSupport" -> currentPlatform = "ESP32">>,
               <<>>, <<>>)

\* a call of one of the five capability queries
platformQuery(query) ==
    /\ UNCHANGED <<loggerVars, capture>>
    /\ Observe(Op(query, NoArgs),
               <<CASE query = "isDesktopPlatform" -> isDesktopPlatform
                   [] query = "isEmbeddedPlatform" -> isEmbeddedPlatform
                   [] query = "isArduinoPlatform" -> isArduinoPlatform
                   [] query = "hasColorSupport" -> hasColorSupport
                   [] query = "hasPrintfSupport" -> hasPrintfSupport>>,
               <<>>, <<>>)

NextPlatform ==
    \/ \E b \in AllBuilds : Restart(b)
    \/ \E platform \in Platforms : setPlatform(platform)
    \/ getPlatform
    \/ init
    \/ \E platform \in Platforms : initWith(platform)
    \/ \E query \in QueryOps : platformQuery(query)
    \/ \E level \in {ERROR, DEBUG} : setLevel(level)
    \/ log(ERROR, TagA, 1)

SpecPlatform == Init /\ [][NextPlatform]_vars

(***************************************************************************)
(* Colors on the console                                                   *)
(***************************************************************************)
NextColors ==
    \/ \E b \in AllBuilds : Restart(b)
    \/ \E enabled \in BOOLEAN : enableDirectOutput(enabled)
    \/ \E enabled \in BOOLEAN : enableLibraryTags(enabled)
    \/ \E color \in {"DEFAULT", "RED"} : setTagColor(TagA, color)
    \/ clearTagColor(TagA)
    \/ setLibraryColor(LibA, "GREEN")
    \/ clearAllLibraryColors
    \/ \E tag \in ShortTags : log(ERROR, tag, 1)
    \/ \E tag \in ShortTags, lib \in {nullptr, LibA, LibB} : info_with_library(tag, lib, 1)

SpecColors == Init /\ [][NextColors]_vars

(***************************************************************************)
(* The logger: configuration and log calls                                 *)
(***************************************************************************)
Next ==
    \/ \E level \in Levels : setLevel(level)
    \/ getLevel
    \/ \E callback \in {NoCallback, OtherCallback} : setCallback(callback)
    \/ \E enabled \in BOOLEAN : enableDirectOutput(enabled)
    \/ \E tag \in ShortTags : enableTag(tag)
    \/ \E tag \in ShortTags : disableTag(tag)
    \/ \E tag \in ShortTags : isTagEnabled(tag)
    \/ clearTagFilters
    \/ enableAllTags
    \/ disableAllTags
    \/ \E level \in Levels, tag \in ShortTags : log(level, tag, 1)
    \/ \E tag \in ShortTags, lib \in {nullptr, LibA} : error_with_library(tag, lib, 1)
    \/ \E tag \in ShortTags, lib \in {nullptr, LibA} : warn_with_library(tag, lib, 1)
    \/ \E tag \in ShortTags, lib \in {nullptr, LibA} : info_with_library(tag, lib, 1)
    \/ \E tag \in ShortTags, lib \in {nullptr, LibA} : debug_with_library(tag, lib, 1)
    \/ \E tag \in ShortTags, lib \in {nullptr, LibA} : trace_with_library(tag, lib, 1)

Spec == Init /\ [][Next]_vars


(***************************************************************************)
(* Log calls observed through the capturing callback                       *)
(***************************************************************************)
NextDelivery ==
    \/ \E level \in Levels : setLevel(level)
    \/ \E callback \in {NoCallback, CaptureCallback} : setCallback(callback)
    \/ enableTag(TagA)
    \/ enableAllTags
    \/ disableAllTags
    \/ \E tag \in ShortTags :
          error_with_library(tag, nullptr, 1) /\ Len(capture') <= MaxCapture
    \/ \E tag \in ShortTags :
          warn_with_library(tag, nullptr, 1) /\ Len(capture') <= MaxCapture
    \/ \E tag \in ShortTags :
          info_with_library(tag, nullptr, 1) /\ Len(capture') <= MaxCapture

SpecDelivery == Init /\ [][NextDelivery]_vars

(***************************************************************************)
(* Log calls between writes of every member of the logger: threshold,      *)
(* callback, flags, filter, both color registries, platform                *)
(***************************************************************************)
NextReadOnly ==
    \/ setLevel(ERROR)
    \/ \E callback \in {NoCallback, OtherCallback} : setCallback(callback)
    \/ enableDirectOutput(FALSE)
    \/ enableLibraryTags(TRUE)
    \/ enableTag(TagA)
    \/ disableTag(TagA)
    \/ setTagColor(TagA, "RED")
    \/ setLibraryColor(LibA, "GREEN")
    \/ setPlatform("ESP32")
    \/ \E level \in {ERROR, TRACE}, tag \in ShortTags : log(level, tag, 1)
    \/ error_with_library(TagA, LibA, 1)
    \/ warn_with_library(TagA, LibA, 1)
    \/ info_with_library(TagB, LibA, 1)
    \/ debug_with_library(TagA, LibA, 1)
    \/ trace_with_library(TagA, nullptr, 1)

SpecReadOnly == Init /\ [][NextReadOnly]_vars

(***************************************************************************)
(* The sinks: callback, console of each build, library segment.  The       *)
(* program is started again and again, built for any of the platforms.     *)
(***************************************************************************)
NextSink ==
    \/ \E b \in Builds : Restart(b)
    \/ \E level \in {ERROR, INFO} : setLevel(level)
    \/ \E callback \in {NoCallback, OtherCallback} : setCallback(callback)
    \/ \E enabled \in BOOLEAN : enableDirectOutput(enabled)
    \/ \E enabled \in BOOLEAN : enableLibraryTags(enabled)
    \/ \E level \in {ERROR, INFO} : log(level, TagA, 1)
    \/ \E lib \in Libs : error_with_library(TagA, lib, 1)
    \/ \E lib \in Libs : warn_with_library(TagA, lib, 1)
    \/ \E lib \in Libs : info_with_library(TagA, lib, 1)
    \/ \E lib \in Libs : debug_with_library(TagA, lib, 1)
    \/ \E lib \in Libs : trace_with_library(TagA, lib, 1)

SpecSink == Init /\ [][NextSink]_vars

(***************************************************************************)
(* Configuration: threshold, callback, flags, colors and tag filters       *)
(***************************************************************************)
NextConfig ==
    \/ setLevel(DEBUG)
    \/ getLevel
    \/ \E callback \in {NoCallback, OtherCallback} : setCallback(callback)
    \/ \E enabled \in BOOLEAN : enableLibraryTags(enabled)
    \/ isLibraryTagsEnabled
    \/ setTagColor(TagA, "RED")
    \/ setLibraryColor(LibA, "GREEN")
    \/ enableTag(TagA)
    \/ \E tag \in {TagA, LongA} : disableTag(tag)
    \/ \E tag \in {TagA, LongPrefix} : isTagEnabled(tag)
    \/ clearTagFilters
    \/ enableAllTags

SpecConfig == Init /\ [][NextConfig]_vars

(***************************************************************************)
(* Macro call sites compiled with every CLOG_LEVEL                         *)
(***************************************************************************)
NextMacros ==
    \/ \E level \in Levels : setLevel(level)
    \/ \E callback \in {NoCallback, OtherCallback} : setCallback(callback)
    \/ disableTag(TagA)
    \/ enableAllTags
    \/ \E clogLevel \in ClogLevels, tag \in ShortTags : CLOG_ERROR(clogLevel, tag, nullptr, 1)
    \/ \E clogLevel \in ClogLevels, tag \in ShortTags : CLOG_WARN(clogLevel, tag, nullptr, 1)
    \/ \E clogLevel \in ClogLevels, tag \in ShortTags : CLOG_INFO(clogLevel, tag, nullptr, 1)
    \/ \E clogLevel \in ClogLevels, tag \in ShortTags : CLOG_DEBUG(clogLevel, tag, nullptr, 1)
    \/ \E clogLevel \in ClogLevels, tag \in ShortTags : CLOG_TRACE(clogLevel, tag, nullptr, 1)

SpecMacros == Init /\ [][NextMacros]_vars

(***************************************************************************)
(* Vocabulary of the properties                                            *)
(***************************************************************************)
\* the last operation was a log call
IsLogCall == call.op \in LogOps

\* the strings held by the active entries of a registry
ActiveTags(filters) == {filters[i].tag : i \in {k \in DOMAIN filters : filters[k].active}}

\* the verdict the documented filter gives tag in state snap
TagPasses(snap, tag) ==
    CASE snap.filterMode = "ALLOW_ALL" -> TRUE
      [] snap.filterMode = "WHITELIST" -> tag \in ActiveTags(snap.tagFilters)
      [] snap.filterMode = "BLACKLIST" -> tag \notin ActiveTags(snap.tagFilters)

Ran(step) == \E i \in DOMAIN steps : steps[i] = step

\* the last operation handed a message to the Formatter/Sink (Logger::output)
HandedToSink == Ran("output")

\* a callback or the console is connected
SinkConnected(snap) == snap.logCallback # NoCallback \/ snap.directOutput

(***************************************************************************)
(* C1  Level gate.  A log call at level L in ERROR..TRACE whose tag passes *)
(* the tag filter is handed to the sink iff L <= T, T the threshold set by *)
(* setLevel; with a callback or the console connected, that is exactly one *)
(* message out.  With T = OFF none of the five levels gets through, with   *)
(* T = TRACE all five do.                                                  *)
(***************************************************************************)
C1_LevelGate ==
    (IsLogCall /\ call.level \in WrapperLevels /\ TagPasses(pre, call.tag)) =>
        /\ HandedToSink <=> call.level <= pre.currentLevel
        /\ SinkConnected(pre) => (Len(emitted) = 1 <=> call.level <= pre.currentLevel)
        /\ Len(emitted) <= 1
        /\ pre.currentLevel = OFF => emitted = <<>>
        /\ pre.currentLevel = TRACE => HandedToSink

\* a WARN message at threshold WARN goes out
C1_Witness ==
    /\ call.op = "warn_with_library"
    /\ pre.currentLevel = WARN
    /\ pre.filterMode = "WHITELIST"
    /\ Len(emitted) = 1

(***************************************************************************)
(* C2  Delivery is synchronous, exactly once and in call order.  Each log  *)
(* call made with the capturing callback registered appends exactly its    *)
(* own (level, tag, message) to the captured sequence when it passes both  *)
(* gates and appends nothing when it does not; no other operation touches  *)
(* the captured sequence.  So the captured sequence is the subsequence of  *)
(* passing calls, in call order.                                           *)
(***************************************************************************)
C2_Delivery ==
    LET passes == /\ IsLogCall
                  /\ pre.logCallback = CaptureCallback
                  /\ call.level <= pre.currentLevel
                  /\ TagPasses(pre, call.tag)
        own == [level |-> call.level, tag |-> call.tag,
                len |-> IF call.len < LOG_BUFFER_SIZE THEN call.len ELSE LOG_BUFFER_SIZE - 1]
    IN  /\ capture = IF passes THEN Append(pre.capture, own) ELSE pre.capture
        /\ passes => /\ Len(emitted) = 1
                     /\ emitted[1].sink = "callback"
                     /\ emitted[1].level = call.level
                     /\ emitted[1].tag = call.tag
        /\ (IsLogCall /\ ~passes /\ pre.logCallback = CaptureCallback) => emitted = <<>>

\* threshold WARN; error, warn, info on one tag: exactly [ERROR, WARN] is
\* captured, and the info call has just been suppressed
C2_Witness ==
    /\ call.op = "info_with_library"
    /\ pre.currentLevel = WARN
    /\ pre.logCallback = CaptureCallback
    /\ capture = <<[level |-> ERROR, tag |-> TagA, len |-> 1],
                   [level |-> WARN, tag |-> TagA, len |-> 1]>>
    /\ pre.capture = capture

(***************************************************************************)
(* C3  Combined gating.  A log call is handed to the sink iff it passes    *)
(* the level gate and the tag filter.  The level gate is evaluated first:  *)
(* a call that fails it never consults the tag filter.  A call that fails  *)
(* either gate is neither formatted nor dispatched.                        *)
(***************************************************************************)
C3_CombinedGating ==
    IsLogCall =>
        LET levelOk == call.level <= pre.currentLevel
            tagOk == TagPasses(pre, call.tag)
        IN  /\ HandedToSink <=> (levelOk /\ tagOk)
            /\ steps[1] = "level"
            /\ ~levelOk => steps = <<"level">>
            /\ ~(levelOk /\ tagOk) => /\ ~Ran("vsnprintf")
                                      /\ ~Ran("output")
                                      /\ emitted = <<>>
                                      /\ capture = pre.capture
            /\ (levelOk /\ tagOk) => Ran("vsnprintf")

\* a call that passed the level gate and was stopped by a blacklist
C3_Witness ==
    /\ IsLogCall
    /\ call.level <= pre.currentLevel
    /\ pre.filterMode = "BLACKLIST"
    /\ steps = <<"level", "checkTagFilter">>


(***************************************************************************)
(* Vocabulary of the tag filter properties                                 *)
(***************************************************************************)
\* what isTagEnabled(tag) returns in the current state
EnabledNow(tag) == checkTagFilter(tag)

NoActiveEntry == \A i \in Slots : ~tagFilters[i].active

HasFreeSlot(snap) == \E i \in Slots : ~snap.tagFilters[i].active

ActiveCount(filters) == Cardinality({i \in DOMAIN filters : filters[i].active})

\* the tags the entry's 32-byte field holds in full
FittingTags == {t \in Tags : Len(t) < TAG_FIELD_SIZE}

(***************************************************************************)
(* C4  Mode switch out of ALLOW_ALL.  In ALLOW_ALL mode enableTag(A)       *)
(* switches to WHITELIST, after which isTagEnabled(A) is true and          *)
(* isTagEnabled(B) is false for every B # A; disableTag(A) switches to     *)
(* BLACKLIST, after which isTagEnabled(A) is false and isTagEnabled(B) is  *)
(* true for every B # A.                                                   *)
(***************************************************************************)
C4_ModeSwitch ==
    /\ (call.op = "enableTag" /\ pre.filterMode = "ALLOW_ALL") =>
           /\ filterMode = "WHITELIST"
           /\ EnabledNow(call.tag)
           /\ \A b \in Tags \ {call.tag} : ~EnabledNow(b)
    /\ (call.op = "disableTag" /\ pre.filterMode = "ALLOW_ALL") =>
           /\ filterMode = "BLACKLIST"
           /\ ~EnabledNow(call.tag)
           /\ \A b \in Tags \ {call.tag} : EnabledNow(b)

\* the same, for tags the field holds in full
C4_ModeSwitch_Fitting ==
    /\ (call.op = "enableTag" /\ pre.filterMode = "ALLOW_ALL" /\ call.tag \in FittingTags) =>
           /\ filterMode = "WHITELIST"
           /\ EnabledNow(call.tag)
           /\ \A b \in Tags \ {call.tag} : ~EnabledNow(b)
    /\ (call.op = "disableTag" /\ pre.filterMode = "ALLOW_ALL" /\ call.tag \in FittingTags) =>
           /\ filterMode = "BLACKLIST"
           /\ ~EnabledNow(call.tag)
           /\ \A b \in Tags \ {call.tag} : EnabledNow(b)

(***************************************************************************)
(* C5  Reset operations, from any reachable state.  After enableAllTags()  *)
(* the mode is ALLOW_ALL, no filter entry is active and every tag is       *)
(* enabled; after disableAllTags() the mode is WHITELIST, no filter entry  *)
(* is active and no tag is enabled.                                        *)
(***************************************************************************)
C5_Reset ==
    /\ call.op = "enableAllTags" =>
           /\ filterMode = "ALLOW_ALL"
           /\ NoActiveEntry
           /\ \A t \in Tags : EnabledNow(t)
    /\ call.op = "disableAllTags" =>
           /\ filterMode = "WHITELIST"
           /\ NoActiveEntry
           /\ \A t \in Tags : ~EnabledNow(t)

\* disableAllTags() on a blacklist that filled every slot
C5_Witness ==
    /\ call.op = "disableAllTags"
    /\ pre.filterMode = "BLACKLIST"
    /\ \A i \in Slots : pre.tagFilters[i].active
    /\ NoActiveEntry

(***************************************************************************)
(* C6  Whitelist building.  After disableAllTags() followed by             *)
(* enableTag(X1) .. enableTag(Xk), k <= CLOG_MAX_TAG_FILTERS distinct      *)
(* tags, isTagEnabled(t) is true exactly for t in {X1 .. Xk}, whatever the *)
(* registry held before.                                                   *)
(***************************************************************************)
C6_WhitelistBuilding ==
    (whitelistRun.ok /\ Cardinality(whitelistRun.tags) <= CLOG_MAX_TAG_FILTERS) =>
        \A t \in Tags : EnabledNow(t) <=> t \in whitelistRun.tags

\* the same, for tags the field holds in full
C6_WhitelistBuilding_Fitting ==
    (/\ whitelistRun.ok
     /\ Cardinality(whitelistRun.tags) <= CLOG_MAX_TAG_FILTERS
     /\ whitelistRun.tags \subseteq FittingTags) =>
        \A t \in Tags : EnabledNow(t) <=> t \in whitelistRun.tags

(***************************************************************************)
(* C7  isTagEnabled(tag) is a pure function of (mode, active entries,      *)
(* tag): true in ALLOW_ALL; in WHITELIST true iff an active entry equals   *)
(* the tag; in BLACKLIST true iff no active entry equals the tag.          *)
(* Inactive entries never matter and the call changes no state.            *)
(***************************************************************************)
C7_IsTagEnabledPure ==
    call.op = "isTagEnabled" =>
        /\ ret = <<TagPasses(pre, call.tag)>>
        /\ Snapshot = pre

\* a whitelist query for a tag that only an inactive entry still holds
C7_Witness ==
    /\ call.op = "isTagEnabled"
    /\ filterMode = "WHITELIST"
    /\ \E i \in Slots : ~tagFilters[i].active /\ tagFilters[i].tag = call.tag
    /\ \E i \in Slots : tagFilters[i].active
    /\ ret = <<FALSE>>

(***************************************************************************)
(* C8  enableTag in BLACKLIST mode removes the tag from the blacklist:     *)
(* afterwards isTagEnabled(tag) is true, every other blacklisted tag stays *)
(* disabled and the mode stays BLACKLIST; if the tag was not blacklisted   *)
(* the call changes nothing.                                               *)
(***************************************************************************)
C8_EnableInBlacklist ==
    (call.op = "enableTag" /\ pre.filterMode = "BLACKLIST") =>
        /\ filterMode = "BLACKLIST"
        /\ EnabledNow(call.tag)
        /\ \A t \in Tags \ {call.tag} : ~TagPasses(pre, t) => ~EnabledNow(t)
        /\ TagPasses(pre, call.tag) => tagFilters = pre.tagFilters

\* the same, for a registry that only ever took tags the field holds in full
C8_EnableInBlacklist_Fitting ==
    (/\ call.op = "enableTag"
     /\ pre.filterMode = "BLACKLIST"
     /\ \A i, j \in Slots : (/\ pre.tagFilters[i].active
                             /\ pre.tagFilters[j].active
                             /\ pre.tagFilters[i].tag = pre.tagFilters[j].tag) => i = j) =>
        /\ filterMode = "BLACKLIST"
        /\ EnabledNow(call.tag)
        /\ \A t \in Tags \ {call.tag} : ~TagPasses(pre, t) => ~EnabledNow(t)
        /\ TagPasses(pre, call.tag) => tagFilters = pre.tagFilters


(***************************************************************************)
(* C9  disableTag in WHITELIST mode removes the tag from the whitelist:    *)
(* afterwards isTagEnabled(tag) is false, every other whitelisted tag      *)
(* stays enabled and the mode stays WHITELIST; if the tag was not          *)
(* whitelisted the call changes nothing.  In BLACKLIST mode disableTag     *)
(* adds the tag (a slot being free) and is idempotent: a second call       *)
(* leaves the registry as the first one left it.                           *)
(***************************************************************************)
C9_DisableTag ==
    /\ (call.op = "disableTag" /\ pre.filterMode = "WHITELIST") =>
           /\ filterMode = "WHITELIST"
           /\ ~EnabledNow(call.tag)
           /\ \A t \in Tags \ {call.tag} : TagPasses(pre, t) => EnabledNow(t)
           /\ ~TagPasses(pre, call.tag) => tagFilters = pre.tagFilters
    /\ (call.op = "disableTag" /\ pre.filterMode = "BLACKLIST") =>
           /\ filterMode = "BLACKLIST"
           /\ HasFreeSlot(pre) => ~EnabledNow(call.tag)
           /\ FiltersAfterDisable(call.tag) = tagFilters

\* the same, for tags the field holds in full and a registry that only
\* ever took such tags
C9_DisableTag_Fitting ==
    (/\ call.tag \in FittingTags
     /\ \A i, j \in Slots : (/\ pre.tagFilters[i].active
                             /\ pre.tagFilters[j].active
                             /\ pre.tagFilters[i].tag = pre.tagFilters[j].tag) => i = j) =>
        C9_DisableTag

(***************************************************************************)
(* C10  Idempotence of enableTag.  For every tag X, calling enableTag(X)   *)
(* twice in WHITELIST mode leaves the same enabled set as calling it once, *)
(* and the second call is a no-op on the registry: it activates no         *)
(* further slot.                                                           *)
(***************************************************************************)
C10_EnableIdempotent ==
    (call.op = "enableTag" /\ filterMode = "WHITELIST") =>
        LET twice == FiltersAfterEnable(call.tag)
        IN  /\ ActiveTags(twice) = ActiveTags(tagFilters)
            /\ ActiveCount(twice) = ActiveCount(tagFilters)
            /\ twice = tagFilters

\* the same, for tags the field holds in full
C10_EnableIdempotent_Fitting ==
    call.tag \in FittingTags => C10_EnableIdempotent

(***************************************************************************)
(* C11  Truncation equivalence.  A tag longer than the stored length is    *)
(* truncated before storage and before comparison, so after enabling or    *)
(* disabling an over-long tag, isTagEnabled (and with it the log gate,     *)
(* which asks the same checkTagFilter) answers for that tag as it answers  *)
(* for the stored prefix, and gives one answer for two over-long tags      *)
(* that agree on the stored prefix.                                        *)
(***************************************************************************)
C11_TruncationEquivalence ==
    (call.op \in {"enableTag", "disableTag"} /\ call.tag \in {LongA, LongB}) =>
        /\ EnabledNow(LongA) <=> EnabledNow(LongB)
        /\ EnabledNow(LongA) <=> EnabledNow(StoreTag(LongA))
        /\ EnabledNow(LongB) <=> EnabledNow(StoreTag(LongB))

\* the part of it the code keeps: the two over-long tags get one answer,
\* since no stored string ever equals either of them
C11_SameVerdict ==
    /\ EnabledNow(LongA) <=> EnabledNow(LongB)
    /\ \A i \in Slots : tagFilters[i].tag # LongA /\ tagFilters[i].tag # LongB

(***************************************************************************)
(* C12  Tag-filter saturation.  With all CLOG_MAX_TAG_FILTERS entries      *)
(* active, enableTag in WHITELIST mode (disableTag in BLACKLIST mode) for  *)
(* a tag that is not present is dropped: the mode, every entry and the     *)
(* rest of the logger state are unchanged, nothing is returned or emitted, *)
(* and the tag keeps its verdict: still blocked in WHITELIST, still        *)
(* passing in BLACKLIST.                                                   *)
(***************************************************************************)
C12_Saturation ==
    LET full == \A i \in Slots : pre.tagFilters[i].active
        absent == call.tag \notin ActiveTags(pre.tagFilters)
    IN  /\ (call.op = "enableTag" /\ pre.filterMode = "WHITELIST" /\ full /\ absent) =>
               /\ Snapshot = pre
               /\ ret = <<>> /\ emitted = <<>>
               /\ ~EnabledNow(call.tag)
        /\ (call.op = "disableTag" /\ pre.filterMode = "BLACKLIST" /\ full /\ absent) =>
               /\ Snapshot = pre
               /\ ret = <<>> /\ emitted = <<>>
               /\ EnabledNow(call.tag)

\* a full blacklist of different strings refuses one more tag
C12_Witness ==
    /\ call.op = "disableTag"
    /\ pre.filterMode = "BLACKLIST"
    /\ ActiveCount(pre.tagFilters) = CLOG_MAX_TAG_FILTERS
    /\ Cardinality(ActiveTags(pre.tagFilters)) = CLOG_MAX_TAG_FILTERS
    /\ call.tag \in FittingTags
    /\ call.tag \notin ActiveTags(pre.tagFilters)
    /\ tagFilters = pre.tagFilters
    /\ EnabledNow(call.tag)

(***************************************************************************)
(* C14  In every reachable state, mode ALLOW_ALL means that no tag-filter  *)
(* entry is active.  So the first enableTag after allow-all leaves a       *)
(* whitelist of that one tag, and the first disableTag a blacklist of that *)
(* one tag: no entry of an earlier mode comes back.                        *)
(***************************************************************************)
C14_AllowAllEmpty ==
    /\ filterMode = "ALLOW_ALL" => NoActiveEntry
    /\ (call.op \in {"enableTag", "disableTag"} /\ pre.filterMode = "ALLOW_ALL") =>
           /\ ActiveCount(tagFilters) = 1
           /\ ActiveTags(tagFilters) = {StoreTag(call.tag)}

\* the first enableTag after enableAllTags() ended a blacklist of two tags
C14_Witness ==
    /\ call.op = "enableTag"
    /\ pre.filterMode = "ALLOW_ALL"
    /\ \E i, j \in Slots : /\ i # j
                           /\ pre.tagFilters[i].tag \notin {EmptyTag, StoreTag(call.tag)}
                           /\ pre.tagFilters[j].tag \notin {EmptyTag, StoreTag(call.tag)}
    /\ filterMode = "WHITELIST"
    /\ ActiveTags(tagFilters) = {StoreTag(call.tag)}

(***************************************************************************)
(* C15  Mode transition table.  The mode is always one of ALLOW_ALL,       *)
(* WHITELIST, BLACKLIST, and it changes only by enableAllTags (to          *)
(* ALLOW_ALL), disableAllTags (to WHITELIST), enableTag in ALLOW_ALL (to   *)
(* WHITELIST) and disableTag in ALLOW_ALL (to BLACKLIST).  enableTag and   *)
(* disableTag in WHITELIST or BLACKLIST, clearTagFilters, isTagEnabled,    *)
(* setLevel and every log call leave it as it was.                         *)
(***************************************************************************)
C15_ModeTransitions ==
    /\ filterMode \in {"ALLOW_ALL", "WHITELIST", "BLACKLIST"}
    /\ filterMode =
           CASE call.op = "enableAllTags" -> "ALLOW_ALL"
             [] call.op = "disableAllTags" -> "WHITELIST"
             [] call.op = "enableTag" /\ pre.filterMode = "ALLOW_ALL" -> "WHITELIST"
             [] call.op = "disableTag" /\ pre.filterMode = "ALLOW_ALL" -> "BLACKLIST"
             [] OTHER -> pre.filterMode

\* disableTag on a whitelist: the mode stays WHITELIST
C15_Witness ==
    /\ call.op = "disableTag"
    /\ pre.filterMode = "WHITELIST"
    /\ ActiveCount(pre.tagFilters) > ActiveCount(tagFilters)
    /\ filterMode = "WHITELIST"

(***************************************************************************)
(* C13  clearTagFilters() deactivates every filter entry and leaves the    *)
(* mode unchanged: afterwards no tag is enabled in WHITELIST mode and      *)
(* every tag is enabled in BLACKLIST and in ALLOW_ALL mode.  The           *)
(* threshold, the callback, the direct-output flag, the tag and library    *)
(* colors and the library-tag flag are untouched.                          *)
(***************************************************************************)
C13_ClearTagFilters ==
    call.op = "clearTagFilters" =>
        /\ NoActiveEntry
        /\ filterMode = pre.filterMode
        /\ filterMode = "WHITELIST" => \A t \in Tags : ~EnabledNow(t)
        /\ filterMode \in {"BLACKLIST", "ALLOW_ALL"} => \A t \in Tags : EnabledNow(t)
        /\ currentLevel = pre.currentLevel
        /\ logCallback = pre.logCallback
        /\ directOutput = pre.directOutput
        /\ tagColors = pre.tagColors
        /\ libraryColors = pre.libraryColors
        /\ libraryTagsEnabled = pre.libraryTagsEnabled
        /\ currentPlatform = pre.currentPlatform

\* a blacklist cleared in a logger whose threshold, callback, library-tag
\* flag and colors have all been set
C13_Witness ==
    /\ call.op = "clearTagFilters"
    /\ pre.filterMode = "BLACKLIST"
    /\ ActiveCount(pre.tagFilters) >= 2
    /\ filterMode = "BLACKLIST"
    /\ NoActiveEntry
    /\ currentLevel = DEBUG
    /\ logCallback = OtherCallback
    /\ libraryTagsEnabled
    /\ getTagColor(TagA) = "RED"
    /\ getLibraryColor(LibA) = "GREEN"

(***************************************************************************)
(* C16  Callback exclusivity.  While a callback is registered every        *)
(* delivered message goes to the callback, once, and nothing is written to *)
(* the console, whatever the direct-output flag says.  setCallback(null)   *)
(* turns direct output on, and with no callback registered a delivered     *)
(* message goes to the console only.  No log call reaches both sinks.      *)
(***************************************************************************)
C16_CallbackExclusivity ==
    /\ IsLogCall =>
           /\ Len(emitted) <= 1
           /\ pre.logCallback # NoCallback =>
                  /\ \A i \in DOMAIN emitted : emitted[i].sink = "callback"
                  /\ HandedToSink => Len(emitted) = 1
           /\ pre.logCallback = NoCallback =>
                  /\ \A i \in DOMAIN emitted : emitted[i].sink = "console"
                  /\ (HandedToSink /\ pre.directOutput) => Len(emitted) = 1
           /\ ~\E i, j \in DOMAIN emitted : /\ emitted[i].sink = "callback"
                                            /\ emitted[j].sink = "console"
    /\ (call.op = "setCallback" /\ call.cb = NoCallback) =>
           /\ logCallback = NoCallback
           /\ directOutput
    /\ (call.op = "setCallback" /\ call.cb # NoCallback) =>
           /\ logCallback = call.cb
           /\ ~directOutput

\* a message delivered while a callback is registered and the direct-output
\* flag has been switched on again
C16_Witness ==
    /\ IsLogCall
    /\ pre.logCallback = OtherCallback
    /\ pre.directOutput
    /\ Len(emitted) = 1
    /\ emitted[1].sink = "callback"

(***************************************************************************)
(* C17  Library gate on the callback path.  For a log call that carries a  *)
(* non-empty library name, the callback is handed no library name (null)   *)
(* when library tags are disabled, and the call's library name when they   *)
(* are enabled.                                                            *)
(***************************************************************************)
C17_LibraryGateOnCallback ==
    (/\ IsLogCall
     /\ call.lib \notin {nullptr, EmptyLib}
     /\ Len(emitted) = 1
     /\ emitted[1].sink = "callback") =>
        emitted[1].lib = IF pre.libraryTagsEnabled THEN call.lib ELSE nullptr

\* what the code does on that path: the callback gets the call's library
\* name as it is, whatever the flag says
C17_CallbackGetsRawName ==
    (IsLogCall /\ Len(emitted) = 1 /\ emitted[1].sink = "callback") =>
        emitted[1].lib = call.lib

(***************************************************************************)
(* C18  Library segment on direct output.  On each of the three console    *)
(* branches (Serial.printf on Arduino, std::cout on a desktop, printf      *)
(* otherwise) a delivered message is one line [LEVEL] [LIBRARY][TAG]:      *)
(* message, whose [LIBRARY] segment is there iff libraryTagsEnabled is     *)
(* true and the call's library name is neither null nor empty; otherwise   *)
(* the line is [LEVEL] [TAG]: message.                                     *)
(***************************************************************************)
C18_LibrarySegment ==
    (IsLogCall /\ HandedToSink /\ pre.logCallback = NoCallback /\ pre.directOutput) =>
        /\ Len(emitted) = 1
        /\ emitted[1].sink = "console"
        /\ emitted[1].via = CASE build = ArduinoBuild -> "Serial.printf"
                              [] build = DesktopBuild -> "std::cout"
                              [] build = FallbackBuild -> "printf"
        /\ emitted[1].level = call.level
        /\ emitted[1].tag = call.tag
        /\ emitted[1].lib # nullptr <=>
               (pre.libraryTagsEnabled /\ call.lib # nullptr /\ call.lib # EmptyLib)
        /\ emitted[1].lib # nullptr => emitted[1].lib = call.lib

\* a named library's message on the printf branch with library tags off
C18_Witness ==
    /\ IsLogCall
    /\ build = FallbackBuild
    /\ call.lib = LibA
    /\ ~pre.libraryTagsEnabled
    /\ Len(emitted) = 1
    /\ emitted[1].via = "printf"
    /\ emitted[1].lib = nullptr

(***************************************************************************)
(* C19  Initial state.  Before any configuration call getLevel() is INFO,  *)
(* no callback is registered, direct output is on, the mode is ALLOW_ALL   *)
(* with no active filter entry so isTagEnabled(t) is true for every t, no  *)
(* tag or library color is set and isLibraryTagsEnabled() is false.        *)
(* Afterwards the library-tag flag is what the last enableLibraryTags call *)
(* was given: that call sets it to its argument, no other operation        *)
(* changes it, and isLibraryTagsEnabled() returns it.                      *)
(***************************************************************************)
C19_InitialState ==
    /\ ~configured =>
           /\ currentLevel = INFO
           /\ logCallback = NoCallback
           /\ directOutput
           /\ filterMode = "ALLOW_ALL"
           /\ NoActiveEntry
           /\ \A t \in Tags : EnabledNow(t)
           /\ \A i \in TagColorSlots : ~tagColors[i].active
           /\ \A i \in LibraryColorSlots : ~libraryColors[i].active
           /\ \A t \in Tags : getTagColor(t) = "DEFAULT"
           /\ \A l \in Libs \ {nullptr} : getLibraryColor(l) = "DEFAULT"
           /\ ~libraryTagsEnabled
           /\ call.op = "getLevel" => ret = <<INFO>>
           /\ call.op = "isTagEnabled" => ret = <<TRUE>>
           /\ call.op = "isLibraryTagsEnabled" => ret = <<FALSE>>
    /\ libraryTagsEnabled = IF call.op = "enableLibraryTags" THEN call.flag
                            ELSE pre.libraryTagsEnabled
    /\ call.op = "isLibraryTagsEnabled" => ret = <<pre.libraryTagsEnabled>>

\* the flag switched off again by enableLibraryTags(false)
C19_Witness ==
    /\ call.op = "enableLibraryTags"
    /\ call.flag = FALSE
    /\ pre.libraryTagsEnabled
    /\ ~libraryTagsEnabled

(***************************************************************************)
(* C20  Compile-time floor.  A CLOG_<L> macro call at a site compiled with *)
(* CLOG_LEVEL = M delivers a message iff L <= M and L <= the runtime       *)
(* threshold and the tag passes the filter.  For L > M the call does       *)
(* nothing in any reachable state, whatever setLevel has been given.       *)
(***************************************************************************)
C20_CompileTimeFloor ==
    call.op \in MacroOps =>
        LET delivers == /\ call.level <= call.clogLevel
                        /\ call.level <= pre.currentLevel
                        /\ TagPasses(pre, call.tag)
        IN  /\ HandedToSink <=> delivers
            /\ SinkConnected(pre) => (Len(emitted) = 1 <=> delivers)
            /\ ~delivers => emitted = <<>>
            /\ call.level > call.clogLevel => /\ steps = <<>>
                                              /\ Snapshot = pre

\* CLOG_DEBUG compiled with CLOG_LEVEL = INFO, after setLevel(TRACE)
C20_Witness ==
    /\ call.op = "CLOG_DEBUG"
    /\ call.clogLevel = INFO
    /\ pre.currentLevel = TRACE
    /\ pre.filterMode = "ALLOW_ALL"
    /\ steps = <<>>
    /\ emitted = <<>>


(***************************************************************************)
(* C21  With CLOG_LEVEL = 5 (TRACE) at the call site and no setLevel call  *)
(* made, CLOG_ERROR, CLOG_WARN, CLOG_INFO, CLOG_DEBUG and CLOG_TRACE are   *)
(* all visible: each call whose tag the filter passes is handed to the     *)
(* sink, and delivered when a sink is connected.                           *)
(***************************************************************************)
C21_AllVisibleAtTrace ==
    (/\ call.op \in MacroOps
     /\ call.clogLevel = TRACE
     /\ ~setLevelCalled
     /\ TagPasses(pre, call.tag)) =>
        /\ HandedToSink
        /\ SinkConnected(pre) => Len(emitted) = 1

\* what the code does there: the threshold is still the INFO of the static
\* initialiser, so the macros up to CLOG_INFO are visible and CLOG_DEBUG and
\* CLOG_TRACE are not
C21_VisibleUpToInfo ==
    (/\ call.op \in MacroOps
     /\ call.clogLevel = TRACE
     /\ ~setLevelCalled
     /\ TagPasses(pre, call.tag)) =>
        /\ pre.currentLevel = INFO
        /\ HandedToSink <=> call.level <= INFO


(***************************************************************************)
(* C22  Library color registry.  setLibraryColor and clearLibraryColor     *)
(* with a null or empty name change nothing.  setLibraryColor for a name   *)
(* already present updates its color in place without taking a slot.  With *)
(* MAX_LIBRARY_COLORS entries active a set for a new name is dropped and   *)
(* every entry stays as it was.  For every name n, after a successful      *)
(* setLibraryColor(n, c) the color resolved for n is c, and after          *)
(* clearLibraryColor(n) or clearAllLibraryColors it is DEFAULT.            *)
(***************************************************************************)
ActiveLibraries(colors) ==
    {colors[i].library : i \in {k \in DOMAIN colors : colors[k].active}}

ActiveLibraryCount(colors) == Cardinality({i \in DOMAIN colors : colors[i].active})

C22_LibraryColorRegistry ==
    LET nameless == call.lib \in {nullptr, EmptyLib}
        present == call.lib \in ActiveLibraries(pre.libraryColors)
        full == ActiveLibraryCount(pre.libraryColors) = MAX_LIBRARY_COLORS
    IN  /\ (call.op \in {"setLibraryColor", "clearLibraryColor"} /\ nameless) =>
               Snapshot = pre
        /\ (call.op = "setLibraryColor" /\ ~nameless /\ present) =>
               /\ ActiveLibraryCount(libraryColors) = ActiveLibraryCount(pre.libraryColors)
               /\ \A i \in LibraryColorSlots :
                      /\ libraryColors[i].library = pre.libraryColors[i].library
                      /\ libraryColors[i].active = pre.libraryColors[i].active
        /\ (call.op = "setLibraryColor" /\ ~nameless /\ ~present /\ full) =>
               Snapshot = pre
        /\ (call.op = "setLibraryColor" /\ ~nameless /\ (present \/ ~full)) =>
               getLibraryColor(call.lib) = call.color
        /\ (call.op = "clearLibraryColor" /\ ~nameless) =>
               getLibraryColor(call.lib) = "DEFAULT"
        /\ call.op = "clearAllLibraryColors" =>
               \A n \in LibNames \ {nullptr} : getLibraryColor(n) = "DEFAULT"

\* names LibraryColor::library holds whole
FittingLibs == {n \in LibNames \ {nullptr} : Len(n) <= MAX_LIBRARY_NAME_LENGTH}

\* the same for names that fit the field, in a registry no over-long name
\* has been put into twice
C22_LibraryColorRegistry_Fitting ==
    (/\ call.lib \in FittingLibs \cup {nullptr}
     /\ ActiveLibraryCount(pre.libraryColors)
            = Cardinality(ActiveLibraries(pre.libraryColors))) =>
        C22_LibraryColorRegistry


(***************************************************************************)
(* C23  Tag color registry round trip.  For every tag t, after             *)
(* setTagColor(t, c) that was not dropped the color resolved for t is c; a *)
(* later setTagColor(t, c2) replaces it without activating a second entry; *)
(* after clearTagColor(t) or clearAllTagColors the color resolved for t is *)
(* DEFAULT; clearTagColor of an absent tag changes nothing; a set for a    *)
(* new tag when all MAX_TAG_COLORS slots are active is silently dropped.   *)
(***************************************************************************)
ActiveColorTags(colors) ==
    {colors[i].tag : i \in {k \in DOMAIN colors : colors[k].active}}

ActiveTagColorCount(colors) == Cardinality({i \in DOMAIN colors : colors[i].active})

\* setTagColor of a tag that an earlier setTagColor has stored, with a slot
\* still free
SecondSetOfTag ==
    /\ call.op = "setTagColor"
    /\ ActiveTagColorCount(pre.tagColors) < MAX_TAG_COLORS
    /\ \E i \in TagColorSlots : /\ pre.tagColors[i].active
                                /\ pre.tagColors[i].tag = StoreTag(call.tag)

C23_TagColorRoundTrip ==
    LET present == call.tag \in ActiveColorTags(pre.tagColors)
        full == ActiveTagColorCount(pre.tagColors) = MAX_TAG_COLORS
    IN  /\ (call.op = "setTagColor" /\ (present \/ ~full)) =>
               getTagColor(call.tag) = call.color
        /\ SecondSetOfTag =>
               ActiveTagColorCount(tagColors) = ActiveTagColorCount(pre.tagColors)
        /\ call.op = "clearTagColor" => getTagColor(call.tag) = "DEFAULT"
        /\ call.op = "clearAllTagColors" => \A t \in Tags : getTagColor(t) = "DEFAULT"
        /\ (call.op = "clearTagColor" /\ ~present) => Snapshot = pre
        /\ (call.op = "setTagColor" /\ ~present /\ full) => Snapshot = pre

\* the same for tags that fit the field, in a registry no over-long tag has
\* been put into twice
C23_TagColorRoundTrip_Fitting ==
    (/\ call.tag \in FittingTags
     /\ ActiveTagColorCount(pre.tagColors) = Cardinality(ActiveColorTags(pre.tagColors))) =>
        C23_TagColorRoundTrip


(***************************************************************************)
(* C24  Presentation and filtering are independent.  setTagColor,          *)
(* clearTagColor, clearAllTagColors and the three library-color operations *)
(* never change the filter mode, a filter entry or the verdict of          *)
(* isTagEnabled for any tag; enableTag, disableTag, enableAllTags,         *)
(* disableAllTags and clearTagFilters never change a tag or library color  *)
(* entry.                                                                  *)
(***************************************************************************)
ColorOps == {"setTagColor", "clearTagColor", "clearAllTagColors", "setLibraryColor",
             "clearLibraryColor", "clearAllLibraryColors"}

FilterOps == {"enableTag", "disableTag", "enableAllTags", "disableAllTags",
              "clearTagFilters"}

C24_PresentationIndependent ==
    /\ call.op \in ColorOps =>
           /\ filterMode = pre.filterMode
           /\ tagFilters = pre.tagFilters
           /\ \A t \in Tags : EnabledNow(t) = TagPasses(pre, t)
    /\ call.op \in FilterOps =>
           /\ tagColors = pre.tagColors
           /\ libraryColors = pre.libraryColors

\* every color of a whitelist's tag is cleared and the whitelist is as it was
C24_Witness ==
    /\ call.op = "clearAllTagColors"
    /\ pre.filterMode = "WHITELIST"
    /\ \E i \in Slots, j \in TagColorSlots :
           /\ pre.tagFilters[i].active
           /\ pre.tagColors[j].active
           /\ pre.tagColors[j].tag = pre.tagFilters[i].tag
           /\ pre.tagColors[j].color = "RED"
    /\ \A j \in TagColorSlots : ~tagColors[j].active
    /\ tagFilters = pre.tagFilters
    /\ filterMode = "WHITELIST"
    /\ \E i \in LibraryColorSlots : libraryColors[i].active


(***************************************************************************)
(* C25  No operation is fatal.  Every public operation, called in any      *)
(* reachable state with any argument (null or empty tag and library-name   *)
(* strings and strings longer than the storage limit included), returns    *)
(* normally: the process is never killed.                                  *)
(***************************************************************************)
C25_NoOperationFatal == fault = "none"

\* what the code guarantees: an operation is killed only when it is given a
\* null tag; null, empty and over-long library names and empty and over-long
\* tags always return
C25_FatalOnlyOnNullTag ==
    /\ fault # "none" =>
           /\ call.tag = nullptr
           /\ call.op \in {"enableTag", "disableTag", "isTagEnabled", "setTagColor",
                           "clearTagColor", "log"}
    /\ (call.op = "log" /\ call.tag = nullptr /\ pre.logCallback # NoCallback
        /\ pre.filterMode = "ALLOW_ALL") => fault = "none"


(***************************************************************************)
(* C26  Message truncation.  A message that passes both gates and whose    *)
(* formatted length n exceeds the message buffer is still delivered        *)
(* exactly once, with length min(n, B - 1), B the configured               *)
(* CLOG_BUFFER_SIZE; no logger state changes.                              *)
(***************************************************************************)
C26_Truncation ==
    (/\ call.op = "log"
     /\ call.level <= pre.currentLevel
     /\ TagPasses(pre, call.tag)
     /\ SinkConnected(pre))
    => /\ Len(emitted) = 1
       /\ emitted[1].len = Min(call.len, call.bufferSize - 1)
       /\ Snapshot = [pre EXCEPT !.capture = capture]

\* what the code guarantees: the limit is 511 characters whatever
\* CLOG_BUFFER_SIZE is
C26_TruncationAt512 ==
    (/\ call.op = "log"
     /\ call.level <= pre.currentLevel
     /\ TagPasses(pre, call.tag)
     /\ SinkConnected(pre))
    => /\ Len(emitted) = 1
       /\ emitted[1].len = Min(call.len, LOG_BUFFER_SIZE - 1)
       /\ emitted[1].level = call.level
       /\ emitted[1].tag = call.tag
       /\ Snapshot = [pre EXCEPT !.capture = capture]
       /\ fault = "none"


\* the color the registry gives a name: that of its active entry, DEFAULT
\* without one
ConfiguredColor(registry, names, name) ==
    LET hits == {i \in DOMAIN registry : registry[i].active /\ names[i] = name}
    IN  IF hits = {} THEN "DEFAULT" ELSE registry[CHOOSE i \in hits : TRUE].color

ConfiguredTagColor(snap, tag) ==
    ConfiguredColor(snap.tagColors, [i \in TagColorSlots |-> snap.tagColors[i].tag], tag)

ConfiguredLibraryColor(snap, library) ==
    ConfiguredColor(snap.libraryColors,
                    [i \in LibraryColorSlots |-> snap.libraryColors[i].library], library)

\* the last operation was a log call that wrote a console line
WroteConsoleLine == IsLogCall /\ Len(emitted) = 1 /\ emitted[1].sink = "console"

\* the escape sequences of a line colored where flag says so
ColorsFollow(flag) ==
    WroteConsoleLine =>
        LET e == emitted[1]
            tagC == ConfiguredTagColor(pre, call.tag)
            libC == ConfiguredLibraryColor(pre, call.lib)
        IN  /\ e.levelColor # NoEscape <=> flag
            /\ e.tagColor # NoEscape <=> (flag /\ tagC # "DEFAULT")
            /\ e.tagColor # NoEscape => e.tagColor = tagC
            /\ e.libraryColor # NoEscape <=> (flag /\ e.lib # nullptr /\ libC # "DEFAULT")
            /\ e.libraryColor # NoEscape => e.libraryColor = libC

(***************************************************************************)
(* C27  Colorization follows the capability flags.  On direct output the   *)
(* escape sequences for the level keyword and for a tag or library segment *)
(* with a configured color other than DEFAULT are written iff the          *)
(* platform's color-support flag is true; without color support, and for a *)
(* tag or library without a configured color, the segment is raw text.     *)
(***************************************************************************)
C27_ColorsFollowFlag == ColorsFollow(hasColorSupport)

\* what the code guarantees: the colors follow the branch of output(), which
\* is the std::cout one exactly on a desktop build
C27_ColorsFollowBranch == ColorsFollow(isDesktopPlatform)


\* what platform.hpp and log.hpp fix for each build, in the order
\* desktop, embedded, Arduino, color support, printf support
Capabilities(b) ==
    CASE b = DesktopBuild -> <<TRUE, FALSE, FALSE, TRUE, FALSE>>
      [] b = ArduinoBuild -> <<FALSE, TRUE, TRUE, FALSE, TRUE>>
      [] b = FallbackBuild -> <<FALSE, TRUE, FALSE, FALSE, FALSE>>
      [] b = EspIdfBuild -> <<FALSE, TRUE, FALSE, TRUE, TRUE>>

QueryIndex(query) ==
    CASE query = "isDesktopPlatform" -> 1
      [] query = "isEmbeddedPlatform" -> 2
      [] query = "isArduinoPlatform" -> 3
      [] query = "hasColorSupport" -> 4
      [] query = "hasPrintfSupport" -> 5

ThreadPasses(t) ==
    /\ ThreadLevel(t) <= currentLevel
    /\ TagPasses(Snapshot, ThreadTag(t))
    /\ logCallback = CaptureCallback

\* how often the callback has been given message k of thread t, with that
\* thread's level and tag
Invocations(t, k) ==
    Cardinality({i \in DOMAIN capture :
                    /\ capture[i].level = ThreadLevel(t)
                    /\ capture[i].tag = ThreadTag(t)
                    /\ capture[i].len = MessageLen(t, k)})

RECURSIVE PassedCalls(_)
PassedCalls(T) ==
    IF T = {} THEN 0
    ELSE LET t == CHOOSE u \in T : TRUE
         IN  (IF ThreadPasses(t) THEN threads[t].done ELSE 0) + PassedCalls(T \ {t})

AllThreadsDone == \A t \in Threads : threads[t].done = MESSAGES_PER_THREAD

(***************************************************************************)
(* C29  Concurrent logging with fixed configuration.  When several threads *)
(* log at the same time and no configuration operation runs meanwhile,     *)
(* every call that passes both gates invokes the callback exactly once     *)
(* with its own level, tag and message (none lost, duplicated or mixed     *)
(* with another thread's): N threads making M passing calls each produce   *)
(* exactly N*M invocations.                                                *)
(***************************************************************************)
C29_ConcurrentLogging ==
    /\ \A t \in Threads, k \in 1..MESSAGES_PER_THREAD :
           Invocations(t, k) = IF ThreadPasses(t) /\ k <= threads[t].done THEN 1 ELSE 0
    /\ Len(capture) = PassedCalls(Threads)
    /\ (AllThreadsDone /\ \A t \in Threads : ThreadPasses(t)) =>
           Len(capture) = NUM_THREADS * MESSAGES_PER_THREAD

\* every thread has made all its calls, all passing, and the callback got
\* them interleaved
C29_Witness ==
    /\ AllThreadsDone
    /\ \A t \in Threads : ThreadPasses(t)
    /\ Len(capture) = NUM_THREADS * MESSAGES_PER_THREAD
    /\ capture[1].tag = ThreadTag(2)
    /\ capture[2].tag = ThreadTag(1)
    /\ capture[3].tag = ThreadTag(2)


\* every thread has made its enableTag call
AllEnabled == \A t \in Threads : threads[t].done = 1 /\ threads[t].pc = "idle"

\* the active entries holding tag
Holding(tag) == {i \in Slots : tagFilters[i].active /\ tagFilters[i].tag = tag}

Requesting(tag) == {t \in Threads : threads[t].tag = tag}

\* what every serial order of the calls leaves in a whitelist with room:
\* each requested tag in exactly one active entry
SerialOutcome ==
    \A t \in Threads : Cardinality(Holding(threads[t].tag)) = 1

(***************************************************************************)
(* C30  Configuration operations take no lock and are not atomic.  Two     *)
(* threads running enableTag in WHITELIST mode, interleaved statement by   *)
(* statement, reach a state no serial order of the calls produces: both    *)
(* choose the same free slot and one tag is lost, or the same tag becomes  *)
(* active in two slots.  Those are the only ways the outcome departs from  *)
(* a serial one: a tag is lost only to a thread that wrote the same slot,  *)
(* a tag is held twice only when two threads enabled it, and an entry the  *)
(* threads found active stays.                                             *)
(***************************************************************************)
C30_EnableTagRace ==
    (AllEnabled /\ filterMode = "WHITELIST") =>
        /\ \A t \in Threads :
               /\ Cardinality(Holding(threads[t].tag)) <= Cardinality(Requesting(threads[t].tag))
               /\ Holding(threads[t].tag) = {} =>
                      \E v \in Requesting(threads[t].tag), u \in Threads :
                          /\ threads[u].tag # threads[v].tag
                          /\ threads[u].slot = threads[v].slot
        /\ \A i \in Slots : tagFilters[i].active =>
               \/ \E t \in Threads : tagFilters[i].tag = threads[t].tag
               \/ tagFilters[i].tag = TagC /\ call.op = "enableTag"
        /\ call.op = "enableTag" => Holding(TagC) # {}

\* both threads took slot 0 for different tags: one tag is lost
C30_Witness ==
    /\ AllEnabled
    /\ filterMode = "WHITELIST"
    /\ threads[1].tag = TagA
    /\ threads[2].tag = TagB
    /\ Holding(TagA) = {}
    /\ Holding(TagB) = {0}
    /\ ~SerialOutcome

\* both threads enabled the same tag: it is active in two slots
C30_WitnessDuplicate ==
    /\ AllEnabled
    /\ \A t \in Threads : threads[t].tag = TagA
    /\ Cardinality(Holding(TagA)) = 2
    /\ ~SerialOutcome


\* the last operation was a removal from, or an insertion into, the registry
RemovalCall ==
    \/ call.op = "disableTag" /\ pre.filterMode = "WHITELIST"
    \/ call.op = "enableTag" /\ pre.filterMode = "BLACKLIST"

InsertionCall ==
    \/ call.op = "enableTag" /\ pre.filterMode \in {"ALLOW_ALL", "WHITELIST"}
    \/ call.op = "disableTag" /\ pre.filterMode \in {"ALLOW_ALL", "BLACKLIST"}

AllActive(filters) == \A i \in DOMAIN filters : filters[i].active

\* the registry holds tag: an active entry stores what the field keeps of it
TagStored(filters, tag) == StoreTag(tag) \in ActiveTags(filters)

(***************************************************************************)
(* C31  Slot reuse without compaction.  Removal only clears an entry's     *)
(* active flag, every stored string stays where it is; a later insertion   *)
(* takes the lowest-index inactive slot.  Hence removing a tag from a full *)
(* registry frees a slot, and adding a new tag while a slot is free        *)
(* succeeds and gives the new tag the intended verdict: enabled in a       *)
(* whitelist, disabled in a blacklist.                                     *)
(***************************************************************************)
C31_SlotReuse ==
    /\ RemovalCall =>
           /\ \A i \in Slots : /\ tagFilters[i].tag = pre.tagFilters[i].tag
                               /\ tagFilters[i].active => pre.tagFilters[i].active
           /\ (AllActive(pre.tagFilters) /\ TagStored(pre.tagFilters, call.tag)) =>
                  ~AllActive(tagFilters)
    /\ (InsertionCall /\ ~AllActive(pre.tagFilters)
        /\ ~TagStored(pre.tagFilters, call.tag)) =>
           LET free == {i \in Slots : ~pre.tagFilters[i].active}
               lowest == CHOOSE i \in free : \A j \in free : i <= j
           IN  /\ tagFilters = [pre.tagFilters EXCEPT
                                   ![lowest] = [tag |-> StoreTag(call.tag), active |-> TRUE]]
               /\ EnabledNow(call.tag) <=> filterMode = "WHITELIST"

\* the same, for tags the field holds in full
C31_SlotReuse_Fitting == call.tag \in FittingTags => C31_SlotReuse

\* a slot freed by a removal is taken again: the registry was full but for
\* one slot, not the last, that still held the string of a removed tag
C31_ReusedSlot ==
    /\ InsertionCall
    /\ call.tag \in FittingTags
    /\ \E i \in Slots : /\ i + 1 < CLOG_MAX_TAG_FILTERS
                        /\ ~pre.tagFilters[i].active
                        /\ pre.tagFilters[i].tag \notin {EmptyTag, call.tag}
                        /\ \A j \in Slots \ {i} : pre.tagFilters[j].active
                        /\ tagFilters[i] = [tag |-> call.tag, active |-> TRUE]
    /\ AllActive(tagFilters)


\* no two active entries of a registry store the same string
UniqueActive(registry, strings) ==
    \A i, j \in DOMAIN registry :
        (registry[i].active /\ registry[j].active /\ strings[i] = strings[j]) => i = j

\* two active entries store the same string only if that string fills its
\* field to the last character
UniqueUnlessFull(registry, strings, size) ==
    \A i, j \in DOMAIN registry :
        (registry[i].active /\ registry[j].active /\ strings[i] = strings[j]) =>
            i = j \/ Len(strings[i]) = size

FilterStrings == [i \in Slots |-> tagFilters[i].tag]
TagColorStrings == [i \in TagColorSlots |-> tagColors[i].tag]
LibraryColorStrings == [i \in LibraryColorSlots |-> libraryColors[i].library]

(***************************************************************************)
(* C32  Registry uniqueness.  In every state reached by single-threaded    *)
(* use of the public operations at most CLOG_MAX_TAG_FILTERS tag-filter    *)
(* entries are active and no two active tag-filter entries store the same  *)
(* string; likewise for the tag-color and library-color registries.        *)
(***************************************************************************)
C32_RegistryUniqueness ==
    /\ ActiveCount(tagFilters) <= CLOG_MAX_TAG_FILTERS
    /\ UniqueActive(tagFilters, FilterStrings)
    /\ ActiveCount(tagColors) <= MAX_TAG_COLORS
    /\ UniqueActive(tagColors, TagColorStrings)
    /\ ActiveCount(libraryColors) <= MAX_LIBRARY_COLORS
    /\ UniqueActive(libraryColors, LibraryColorStrings)

\* what the code guarantees: the only strings stored twice are the ones cut
\* to the size of the field
C32_UniqueUnlessTruncated ==
    /\ ActiveCount(tagFilters) <= CLOG_MAX_TAG_FILTERS
    /\ UniqueUnlessFull(tagFilters, FilterStrings, TAG_FIELD_SIZE - 1)
    /\ ActiveCount(tagColors) <= MAX_TAG_COLORS
    /\ UniqueUnlessFull(tagColors, TagColorStrings, TAG_FIELD_SIZE - 1)
    /\ ActiveCount(libraryColors) <= MAX_LIBRARY_COLORS
    /\ UniqueUnlessFull(libraryColors, LibraryColorStrings, MAX_LIBRARY_NAME_LENGTH)


(***************************************************************************)
(* C33  Enable/disable postcondition for every tag.  For every tag t of    *)
(* any length: in WHITELIST mode with a free slot isTagEnabled(t) is true  *)
(* immediately after enableTag(t), and in BLACKLIST mode with a free slot  *)
(* isTagEnabled(t) is false immediately after disableTag(t).               *)
(***************************************************************************)
C33_Postcondition ==
    /\ (call.op = "enableTag" /\ filterMode = "WHITELIST" /\ HasFreeSlot(pre)) =>
           EnabledNow(call.tag)
    /\ (call.op = "disableTag" /\ filterMode = "BLACKLIST" /\ HasFreeSlot(pre)) =>
           ~EnabledNow(call.tag)

\* the same, for tags the field holds in full
C33_Postcondition_Fitting == call.tag \in FittingTags => C33_Postcondition

\* an over-long tag was enabled into a free slot
C33_LongTagEnabled ==
    /\ call.op = "enableTag"
    /\ call.tag = LongA
    /\ filterMode = "WHITELIST"
    /\ HasFreeSlot(pre)
    /\ TagStored(tagFilters, LongA)
    /\ ~EnabledNow(LongA)


(***************************************************************************)
(* C34  An emptied blacklist is not allow-all.  With the mode BLACKLIST    *)
(* and no active entry (every blacklisted tag re-enabled, or               *)
(* clearTagFilters called) the mode is still BLACKLIST: enableTag(Y)       *)
(* changes nothing and every tag is enabled.  With the mode WHITELIST and  *)
(* no active entry no tag is enabled and disableTag(Y) changes nothing: it *)
(* does not start a blacklist.  The mode goes back to ALLOW_ALL in         *)
(* enableAllTags and nowhere else.                                         *)
(***************************************************************************)
EmptyRegistry(snap) == ActiveCount(snap.tagFilters) = 0

C34_EmptiedKeepsMode ==
    /\ (filterMode = "BLACKLIST" /\ NoActiveEntry) => \A Z \in Tags : EnabledNow(Z)
    /\ (filterMode = "WHITELIST" /\ NoActiveEntry) => \A Z \in Tags : ~EnabledNow(Z)
    /\ (call.op = "enableTag" /\ pre.filterMode = "BLACKLIST" /\ EmptyRegistry(pre)) =>
           /\ filterMode = "BLACKLIST"
           /\ tagFilters = pre.tagFilters
    /\ (call.op = "disableTag" /\ pre.filterMode = "WHITELIST" /\ EmptyRegistry(pre)) =>
           /\ filterMode = "WHITELIST"
           /\ tagFilters = pre.tagFilters
    /\ (call.op \in {"enableTag", "disableTag", "clearTagFilters"}
            /\ pre.filterMode # "ALLOW_ALL") =>
           filterMode = pre.filterMode
    /\ (pre.filterMode # "ALLOW_ALL" /\ filterMode = "ALLOW_ALL") =>
           call.op = "enableAllTags"

\* Y was blacklisted and re-enabled, and is now enabled once more
C34_Witness ==
    /\ call.op = "enableTag"
    /\ pre.filterMode = "BLACKLIST"
    /\ EmptyRegistry(pre)
    /\ \E i \in Slots : pre.tagFilters[i].tag = call.tag /\ call.tag # EmptyTag
    /\ filterMode = "BLACKLIST"
    /\ NoActiveEntry

\* Y was whitelisted and disabled, and is now disabled once more
C34_WitnessWhitelist ==
    /\ call.op = "disableTag"
    /\ pre.filterMode = "WHITELIST"
    /\ EmptyRegistry(pre)
    /\ \E i \in Slots : pre.tagFilters[i].tag = call.tag /\ call.tag # EmptyTag
    /\ filterMode = "WHITELIST"


(***************************************************************************)
(* C35  isTagEnabled agrees with the log gate.  In every reachable state   *)
(* and for every tag t, a call of log() or of one of the five              *)
(* *_with_library wrappers at a level passing the level gate is handed to  *)
(* the sink iff isTagEnabled(t) returns true in that state.                *)
(***************************************************************************)
\* the last call was a log call at a level the threshold lets through
PassedLevelGate == IsLogCall /\ call.level <= pre.currentLevel

\* the last call was isTagEnabled(tag) and returned answer
Answered(tag, answer) == call.op = "isTagEnabled" /\ call.tag = tag /\ ret = <<answer>>

C35_QueryAgreesWithGate ==
    /\ PassedLevelGate => (HandedToSink <=> EnabledNow(call.tag))
    /\ call.op = "isTagEnabled" => ret = <<EnabledNow(call.tag)>>
    /\ call.op = "isTagEnabled" \/ IsLogCall =>
           /\ filterMode = pre.filterMode
           /\ tagFilters = pre.tagFilters

\* the same as one step: a query, then a log call with the tag just asked about
C35_QueryThenLog ==
    [][\A tag \in Tags, answer \in BOOLEAN :
          (Answered(tag, answer) /\ call'.op \in LogOps /\ call'.tag = tag
               /\ call'.level <= currentLevel)
              => ((\E i \in DOMAIN steps' : steps'[i] = "output") <=> answer)]_vars

\* a blacklisted tag: the call passes the level gate and stops at the filter
C35_Witness ==
    /\ PassedLevelGate
    /\ call.op \in LogOps \ {"log"}
    /\ filterMode = "BLACKLIST"
    /\ ~EnabledNow(call.tag)
    /\ ~HandedToSink
    /\ Ran("checkTagFilter")

\* the query says no for a blacklisted tag
C35_WitnessQuery ==
    /\ Answered(TagA, FALSE)
    /\ filterMode = "BLACKLIST"


(***************************************************************************)
(* C36  setCallback overrides the direct-output flag.  setCallback of a    *)
(* callback sets direct output off and setCallback(nullptr) sets it on,    *)
(* whatever an earlier enableDirectOutput call said: after                 *)
(* enableDirectOutput(false) and then setCallback(nullptr) messages are    *)
(* written to the console again, and enableDirectOutput(true) while a      *)
(* callback is registered makes no message reach the console.              *)
(***************************************************************************)
OnConsole == {i \in DOMAIN emitted : emitted[i].sink = "console"}

C36_SetCallbackOverridesFlag ==
    /\ call.op = "setCallback" =>
           /\ logCallback = call.cb
           /\ directOutput = (call.cb = NoCallback)
    /\ (call.op = "enableDirectOutput" /\ pre.logCallback # NoCallback) =>
           /\ logCallback = pre.logCallback
           /\ directOutput = call.flag
    /\ (IsLogCall /\ HandedToSink /\ pre.logCallback = NoCallback /\ pre.directOutput) =>
           /\ Len(emitted) = 1
           /\ OnConsole = {1}
    /\ (IsLogCall /\ pre.logCallback # NoCallback) => OnConsole = {}

\* the console was switched off by enableDirectOutput(false); setCallback(nullptr)
\* has switched it on again
C36_Witness ==
    /\ call.op = "setCallback"
    /\ call.cb = NoCallback
    /\ pre.logCallback = NoCallback
    /\ ~pre.directOutput
    /\ directOutput

\* a callback is registered and the flag is on: the message goes to the callback
C36_WitnessFlagOnWithCallback ==
    /\ IsLogCall
    /\ pre.logCallback # NoCallback
    /\ pre.directOutput
    /\ Len(emitted) = 1
    /\ emitted[1].sink = "callback"


(***************************************************************************)
(* C37  No sink means silent loss.  With no callback registered and        *)
(* enableDirectOutput(false) in effect, every log call that passes both    *)
(* gates is discarded: neither the callback nor the console receives it.   *)
(* The logger stays in that condition until setCallback or                 *)
(* enableDirectOutput(true) is called.                                     *)
(***************************************************************************)
C37_SilentLoss ==
    /\ (IsLogCall /\ ~SinkConnected(pre)) =>
           /\ emitted = <<>>
           /\ capture = pre.capture
           /\ HandedToSink <=> (call.level <= pre.currentLevel /\ TagPasses(pre, call.tag))
    /\ (~SinkConnected(pre) /\ SinkConnected(Snapshot)) =>
           \/ call.op = "setCallback"
           \/ call.op = "enableDirectOutput" /\ call.flag

\* a message passed both gates and went nowhere
C37_Witness ==
    /\ IsLogCall
    /\ ~SinkConnected(pre)
    /\ HandedToSink
    /\ emitted = <<>>
    /\ ~SinkConnected(Snapshot)

\* enableDirectOutput(true) has ended the condition
C37_WitnessEnded ==
    /\ ~SinkConnected(pre)
    /\ call.op = "enableDirectOutput"
    /\ directOutput


(***************************************************************************)
(* C38  Log calls are read-only on logger state.  A call of log() or of a  *)
(* *_with_library wrapper, delivered or suppressed, leaves the threshold,  *)
(* the callback, the direct-output flag, the filter mode, the filter       *)
(* entries, the tag and library color entries, the library-tag flag and    *)
(* the platform as they were (the callback calling no logger operation).   *)
(***************************************************************************)
LoggerState(snap) ==
    <<snap.currentLevel, snap.logCallback, snap.directOutput, snap.filterMode,
      snap.tagFilters, snap.tagColors, snap.libraryColors, snap.libraryTagsEnabled,
      snap.currentPlatform>>

C38_LogCallsReadOnly == IsLogCall => LoggerState(Snapshot) = LoggerState(pre)

\* every member has been written, and a message was delivered
C38_Witness ==
    /\ IsLogCall
    /\ Len(emitted) = 1
    /\ currentLevel = ERROR
    /\ logCallback = OtherCallback
    /\ libraryTagsEnabled
    /\ filterMode # "ALLOW_ALL"
    /\ ~NoActiveEntry
    /\ \E i \in TagColorSlots : tagColors[i].active
    /\ \E i \in LibraryColorSlots : libraryColors[i].active
    /\ currentPlatform = "ESP32"

\* the same with a message stopped at the tag filter
C38_WitnessSuppressed ==
    /\ IsLogCall
    /\ steps = <<"level", "checkTagFilter">>
    /\ currentLevel = ERROR
    /\ ~directOutput
    /\ \E i \in TagColorSlots : tagColors[i].active
    /\ currentPlatform = "ESP32"


(***************************************************************************)
(* C39  Level::OFF as a message level.  A message logged at Level::OFF     *)
(* through log(Level, ...) passes the level gate at every threshold, the   *)
(* threshold OFF included (OFF <= T for every T), and its level keyword    *)
(* is the fallback string "?????".                                         *)
(***************************************************************************)
LoggedAtOff == call.op = "log" /\ call.level = OFF

C39_OffPassesGate ==
    /\ LoggedAtOff =>
           /\ Ran("checkTagFilter")
           /\ HandedToSink <=> TagPasses(pre, call.tag)
           /\ (HandedToSink /\ pre.logCallback = NoCallback /\ pre.directOutput) =>
                  OnConsole = {1}
           /\ (HandedToSink /\ pre.logCallback # NoCallback) =>
                  /\ Len(emitted) = 1
                  /\ emitted[1].sink = "callback"
                  /\ emitted[1].level = OFF
    /\ \A i \in OnConsole : emitted[i].levelStr = "?????" <=> emitted[i].level = OFF

\* the threshold is OFF and the line "[?????] [TAG]: message" is on the console
C39_Witness ==
    /\ LoggedAtOff
    /\ pre.currentLevel = OFF
    /\ OnConsole = {1}
    /\ emitted[1].levelStr = "?????"

=============================================================================
